---- MODULE Spec2Model ----
(***************************************************************************)
(* A model of the NBT binary codec of rust_nbt: read_root (src/read.rs)    *)
(* and write_root (src/write.rs) over the tag model of src/tag.rs.         *)
(*                                                                         *)
(* Bytes are naturals 0..255.  i8 and i16 payloads are integers.  i32,     *)
(* i64, f32 and f64 payloads are bit vectors (sequences of 0/1, least      *)
(* significant bit first) of their exact width, so that shifts, masks and  *)
(* truncation behave as the machine types do.  Text is its sequence of     *)
(* UTF-8 bytes.                                                            *)
(***************************************************************************)
EXTENDS Integers, Sequences, FiniteSets, TLC

VARIABLES
  endian,     \* the dialect every call of the run is given
  header,     \* the BedrockHeader flag every call of the run is given
  root_name,  \* the root name handed to write_root
  data,       \* the byte buffer: the input of read_root, the output of write_root
  tag,        \* Option<Tag>: <<>> or <<the tree>> read_root returned
  pc,         \* "bytes": a buffer to read; "tree": a tree to write; "failed": an
              \* error value was returned; "aborted": the program panicked
  src,        \* where the run's input came from
  hist,       \* the calls made so far, oldest first
  user_value, \* Option<T>: <<>> or <<the user value>> to_tag is given, from_tag returned
  user_type   \* the user type T from_tag is asked for: <<>> or <<a value of T>>

vars == <<endian, header, root_name, data, tag, pc, src, hist, user_value, user_type>>

(***************************************************************************)
(* Machine integers as bit vectors.                                        *)
(***************************************************************************)
BitsOf(n, w) == [i \in 1..w |-> IF i <= 31 THEN (n \div (2 ^ (i - 1))) % 2 ELSE 0]

\* the eight bits of every byte value
ByteBits == [b \in 0..255 |-> BitsOf(b, 8)]

Zero(w) == [i \in 1..w |-> 0]

\* the value of a non-negative bit vector below 2^31, halves at a time
RECURSIVE NatOf(_)
NatOf(v) ==
  IF Len(v) = 0 THEN 0
  ELSE IF Len(v) = 1 THEN v[1]
  ELSE IF \A i \in ((Len(v) \div 2) + 1)..Len(v) : v[i] = 0
       THEN NatOf(SubSeq(v, 1, Len(v) \div 2))
  ELSE NatOf(SubSeq(v, 1, Len(v) \div 2))
       + (2 ^ (Len(v) \div 2)) * NatOf(SubSeq(v, (Len(v) \div 2) + 1, Len(v)))

\* wrapping left shift of a fixed-width value: bits pushed past the width are lost
Shl(v, k) == [i \in 1..Len(v) |-> IF i - k >= 1 THEN v[i - k] ELSE 0]

\* arithmetic right shift (signed types)
Sar(v, k) == [i \in 1..Len(v) |-> IF i + k <= Len(v) THEN v[i + k] ELSE v[Len(v)]]

\* logical right shift (unsigned types)
Shr(v, k) == [i \in 1..Len(v) |-> IF i + k <= Len(v) THEN v[i + k] ELSE 0]

BitOr(a, b) == [i \in 1..Len(a) |-> IF a[i] = 1 \/ b[i] = 1 THEN 1 ELSE 0]

BitAnd(a, b) == [i \in 1..Len(a) |-> IF a[i] = 1 /\ b[i] = 1 THEN 1 ELSE 0]

BitXor(a, b) == [i \in 1..Len(a) |-> IF a[i] # b[i] THEN 1 ELSE 0]

BitNot(a) == [i \in 1..Len(a) |-> 1 - a[i]]

\* two's complement negation: -x = ~x + 1
Inc(v) == [i \in 1..Len(v) |-> IF \A j \in 1..(i - 1) : v[j] = 1 THEN 1 - v[i] ELSE v[i]]

Neg(v) == Inc(BitNot(v))

IsNegative(v) == v[Len(v)] = 1

\* `x as iN` / `x as uN` between widths: zero-extend an unsigned source
ZeroExtend(v, w) == [i \in 1..w |-> IF i <= Len(v) THEN v[i] ELSE 0]

\* the bytes of a fixed-width value, least significant byte first
BytesLE(v) == [k \in 1..(Len(v) \div 8) |-> NatOf(SubSeq(v, 8 * (k - 1) + 1, 8 * k))]

Reverse(s) == [i \in 1..Len(s) |-> s[Len(s) + 1 - i]]

BytesBE(v) == Reverse(BytesLE(v))

RECURSIVE FromBytesLE(_)
FromBytesLE(bs) == IF Len(bs) = 0 THEN <<>> ELSE ByteBits[bs[1]] \o FromBytesLE(Tail(bs))

FromBytesBE(bs) == FromBytesLE(Reverse(bs))

(***************************************************************************)
(* The tag model (src/tag.rs).  A Tag is [id |-> TagId, v |-> payload]; a  *)
(* Compound payload is the sequence of its entries in insertion order.     *)
(***************************************************************************)
\* enum TagId: a kind is its name; its discriminant is what `as u8` yields
TagIdEnd == "End"
TagIdByte == "Byte"
TagIdShort == "Short"
TagIdInt == "Int"
TagIdLong == "Long"
TagIdFloat == "Float"
TagIdDouble == "Double"
TagIdByteArray == "ByteArray"
TagIdString == "String"
TagIdList == "List"
TagIdCompound == "Compound"
TagIdIntArray == "IntArray"
TagIdLongArray == "LongArray"

TagIds ==
  {TagIdEnd, TagIdByte, TagIdShort, TagIdInt, TagIdLong, TagIdFloat, TagIdDouble,
   TagIdByteArray, TagIdString, TagIdList, TagIdCompound, TagIdIntArray, TagIdLongArray}

\* `tag_id as u8`: End = 0, every later variant one more than the one before it
TagIdAsU8(tag_id) ==
  CASE tag_id = TagIdEnd -> 0
    [] tag_id = TagIdByte -> 1
    [] tag_id = TagIdShort -> 2
    [] tag_id = TagIdInt -> 3
    [] tag_id = TagIdLong -> 4
    [] tag_id = TagIdFloat -> 5
    [] tag_id = TagIdDouble -> 6
    [] tag_id = TagIdByteArray -> 7
    [] tag_id = TagIdString -> 8
    [] tag_id = TagIdList -> 9
    [] tag_id = TagIdCompound -> 10
    [] tag_id = TagIdIntArray -> 11
    [] tag_id = TagIdLongArray -> 12

Endians == {"Big", "Little", "LittleVarInt"}

BedrockHeaders == {"With", "Without"}

\* enum Tag: the kind and its payload.  i: the i8 or i16 of a Byte or Short;
\* s: the bits of an Int, Long, Float or Double, the UTF-8 bytes of a String,
\* the i8s of a ByteArray; nums: the elements of an IntArray or LongArray;
\* items: the elements of a List; entries: the (name, value) pairs of a Compound
NoPayload == [id |-> "", i |-> 0, s |-> <<>>, nums |-> <<>>, items |-> <<>>, entries |-> <<>>]

MkTag(id, v) ==
  CASE id \in {"Byte", "Short"} -> [NoPayload EXCEPT !.id = id, !.i = v]
    [] id \in {"Int", "Long", "Float", "Double", "String", "ByteArray"} ->
         [NoPayload EXCEPT !.id = id, !.s = v]
    [] id \in {"IntArray", "LongArray"} -> [NoPayload EXCEPT !.id = id, !.nums = v]
    [] id = "List" -> [NoPayload EXCEPT !.id = id, !.items = v]
    [] id = "Compound" -> [NoPayload EXCEPT !.id = id, !.entries = v]

PayloadOf(t) ==
  CASE t.id \in {"Byte", "Short"} -> t.i
    [] t.id \in {"Int", "Long", "Float", "Double", "String", "ByteArray"} -> t.s
    [] t.id \in {"IntArray", "LongArray"} -> t.nums
    [] t.id = "List" -> t.items
    [] t.id = "Compound" -> t.entries

\* Tag::id
TagIdOf(t) == t.id

\* the result of a fallible step: err = "none" is Ok(val), with the cursor at pos;
\* err = "panic" is an abort of the program, which returns nothing to the caller
Ok(v, p) == [err |-> "none", val |-> v, pos |-> p]

Fail(e) == [err |-> e, val |-> <<>>, pos |-> 0]

\* a conversion that takes 11 for LongArray and 12 for IntArray
TagIdTryFrom_Swapped(value, p) ==
  CASE value = 0 -> Ok(TagIdEnd, p)
    [] value = 1 -> Ok(TagIdByte, p)
    [] value = 2 -> Ok(TagIdShort, p)
    [] value = 3 -> Ok(TagIdInt, p)
    [] value = 4 -> Ok(TagIdLong, p)
    [] value = 5 -> Ok(TagIdFloat, p)
    [] value = 6 -> Ok(TagIdDouble, p)
    [] value = 7 -> Ok(TagIdByteArray, p)
    [] value = 8 -> Ok(TagIdString, p)
    [] value = 9 -> Ok(TagIdList, p)
    [] value = 10 -> Ok(TagIdCompound, p)
    [] value = 11 -> Ok(TagIdLongArray, p)
    [] value = 12 -> Ok(TagIdIntArray, p)
    [] OTHER -> Fail("UnknownType")

\* impl TryFrom<u8> for TagId
TagIdTryFrom(value, p) ==
  CASE value = 0 -> Ok(TagIdEnd, p)
    [] value = 1 -> Ok(TagIdByte, p)
    [] value = 2 -> Ok(TagIdShort, p)
    [] value = 3 -> Ok(TagIdInt, p)
    [] value = 4 -> Ok(TagIdLong, p)
    [] value = 5 -> Ok(TagIdFloat, p)
    [] value = 6 -> Ok(TagIdDouble, p)
    [] value = 7 -> Ok(TagIdByteArray, p)
    [] value = 8 -> Ok(TagIdString, p)
    [] value = 9 -> Ok(TagIdList, p)
    [] value = 10 -> Ok(TagIdCompound, p)
    [] value = 11 -> Ok(TagIdIntArray, p)
    [] value = 12 -> Ok(TagIdLongArray, p)
    [] OTHER -> Fail("UnknownType")

(***************************************************************************)
(* The reader (src/read.rs).  `oc` is whether the build checks arithmetic  *)
(* overflow (a debug build panics on a shift by the type's width or more,  *)
(* a release build masks the shift amount).                                *)
(***************************************************************************)
\* the `?` operator: an Err returns at once, an Ok value goes on to `next`
Try(r, next(_)) == IF r.err # "none" THEN r ELSE next(r)

read_exact(d, p, n) ==
  IF n <= Len(d) - p THEN Ok(SubSeq(d, p + 1, p + n), p + n) ELSE Fail("IoError")

\* a read that yields one zero byte at the end of the input
read_unsigned_byte_ZeroAtEnd(d, p) ==
  IF p < Len(d) THEN Ok(d[p + 1], p + 1)
  ELSE IF p = Len(d) THEN Ok(0, p + 1)
  ELSE Fail("IoError")

read_unsigned_byte(d, p) ==
  IF p < Len(d) THEN Ok(d[p + 1], p + 1) ELSE Fail("IoError")

read_tag_id(d, p) ==
  Try(read_unsigned_byte(d, p), LAMBDA r : TagIdTryFrom(r.val, r.pos))

read_byte(d, p) ==
  Try(read_unsigned_byte(d, p),
      LAMBDA r : Ok(IF r.val >= 128 THEN r.val - 256 ELSE r.val, r.pos))

read_unsigned_short(d, p, e) ==
  Try(read_exact(d, p, 2),
      LAMBDA r : IF e = "Big" THEN Ok(256 * r.val[1] + r.val[2], r.pos)
                 ELSE Ok(r.val[1] + 256 * r.val[2], r.pos))

read_short(d, p, e) ==
  Try(read_unsigned_short(d, p, e),
      LAMBDA r : Ok(IF r.val >= 32768 THEN r.val - 65536 ELSE r.val, r.pos))

read_fixed(d, p, e, n) ==
  Try(read_exact(d, p, n),
      LAMBDA r : IF e = "Big" THEN Ok(FromBytesBE(r.val), r.pos)
                 ELSE Ok(FromBytesLE(r.val), r.pos))

\* read_var_int: the unsigned varint of a string length, accumulated in an i32
RECURSIVE read_var_int_loop(_, _, _, _)
read_var_int_next(d, r, value, shift) ==
  IF r.val < 128 THEN Ok(value, r.pos)
  ELSE IF shift + 7 >= 32 THEN Fail("VarIntRange")
  ELSE read_var_int_loop(d, r.pos, value, shift + 7)

read_var_int_loop(d, p, value, shift) ==
  Try(read_unsigned_byte(d, p),
      LAMBDA r : read_var_int_next(d, r, BitOr(value, Shl(BitsOf(r.val % 128, 32), shift)),
                                   shift))

read_var_int(d, p) == read_var_int_loop(d, p, Zero(32), 0)

\* the zig-zag step with the accumulator shifted arithmetically
ZigZagInt_ArithmeticShift(result) ==
  BitXor(Sar(result, 1), Neg(BitAnd(result, BitsOf(1, 32))))

\* the zig-zag step of read_var_int_zig_zag, on the i32 accumulator
ZigZagInt(result) ==
  BitXor(Sar(BitXor(Sar(Shl(result, 31), 31), result), 1),
         BitAnd(result, Shl(BitsOf(1, 32), 31)))

\* read_var_int_zig_zag: `<< shift` on an i32 with shift >= 32 panics where
\* overflow is checked and shifts by shift % 32 where it is not
RECURSIVE read_var_int_zig_zag_loop(_, _, _, _, _)
read_var_int_zig_zag_next(d, r, oc, result, shift) ==
  IF r.val < 128 THEN Ok(ZigZagInt(result), r.pos)
  ELSE IF shift + 7 > 63 THEN Fail("VarIntRange")
  ELSE read_var_int_zig_zag_loop(d, r.pos, oc, result, shift + 7)

read_var_int_zig_zag_loop(d, p, oc, result, shift) ==
  Try(read_unsigned_byte(d, p),
      LAMBDA r : IF shift >= 32 /\ oc THEN Fail("panic")
                 ELSE read_var_int_zig_zag_next(
                        d, r, oc, BitOr(result, Shl(BitsOf(r.val % 128, 32), shift % 32)), shift))

read_var_int_zig_zag(d, p, oc) == read_var_int_zig_zag_loop(d, p, oc, Zero(32), 0)

read_int(d, p, e, oc) ==
  IF e = "LittleVarInt" THEN read_var_int_zig_zag(d, p, oc) ELSE read_fixed(d, p, e, 4)

\* the zig-zag step with the accumulator shifted arithmetically
ZigZagLong_ArithmeticShift(result) ==
  BitXor(Sar(result, 1), Neg(BitAnd(result, BitsOf(1, 64))))

\* the zig-zag step of read_var_long_zig_zag, on the u64 accumulator
ZigZagLong(result) ==
  BitXor(Shr(result, 1), Neg(BitAnd(result, BitsOf(1, 64))))

RECURSIVE read_var_long_zig_zag_loop(_, _, _, _)
read_var_long_zig_zag_next(d, r, result, shift) ==
  IF r.val < 128 THEN Ok(ZigZagLong(result), r.pos)
  ELSE IF shift + 7 > 63 THEN Fail("VarLongRange")
  ELSE read_var_long_zig_zag_loop(d, r.pos, result, shift + 7)

read_var_long_zig_zag_loop(d, p, result, shift) ==
  Try(read_unsigned_byte(d, p),
      LAMBDA r : read_var_long_zig_zag_next(
                   d, r, BitOr(result, Shl(BitsOf(r.val % 128, 64), shift)), shift))

read_var_long_zig_zag(d, p) == read_var_long_zig_zag_loop(d, p, Zero(64), 0)

read_long(d, p, e) ==
  IF e = "LittleVarInt" THEN read_var_long_zig_zag(d, p) ELSE read_fixed(d, p, e, 8)

read_float(d, p, e) == read_fixed(d, p, e, 4)

read_double(d, p, e) == read_fixed(d, p, e, 8)

\* String::from_utf8: whether the bytes are well-formed UTF-8.  Every byte
\* that is not a continuation byte leads a sequence of the length its value
\* gives, with the second-byte ranges that exclude overlong forms, surrogates
\* and code points past U+10FFFF; every continuation byte belongs to one.
IsCont(b) == b >= 128 /\ b <= 191

\* the length of the sequence the byte b leads (0: b leads none)
Utf8Width(b) ==
  IF b < 128 THEN 1
  ELSE IF b >= 194 /\ b <= 223 THEN 2
  ELSE IF b >= 224 /\ b <= 239 THEN 3
  ELSE IF b >= 240 /\ b <= 244 THEN 4
  ELSE 0

\* the second byte b2 may follow the lead byte b
Utf8Second(b, b2) ==
  CASE b = 224 -> b2 >= 160 /\ b2 <= 191
    [] b = 237 -> b2 >= 128 /\ b2 <= 159
    [] b = 240 -> b2 >= 144 /\ b2 <= 191
    [] b = 244 -> b2 >= 128 /\ b2 <= 143
    [] OTHER -> IsCont(b2)

Utf8Valid(bs) ==
  /\ Len(bs) > 0 => ~IsCont(bs[1])
  /\ \A i \in 1..Len(bs) :
       IsCont(bs[i]) \/
         /\ Utf8Width(bs[i]) # 0
         /\ i + Utf8Width(bs[i]) - 1 <= Len(bs)
         /\ Utf8Width(bs[i]) >= 2 => Utf8Second(bs[i], bs[i + 1])
         /\ \A k \in (i + 2)..(i + Utf8Width(bs[i]) - 1) : IsCont(bs[k])
         /\ i + Utf8Width(bs[i]) <= Len(bs) => ~IsCont(bs[i + Utf8Width(bs[i])])

\* read_string: a length the dialect encodes, that many bytes, then
\* String::from_utf8(buffer).unwrap(), which panics on bytes that are not UTF-8.
\* A negative i32 length cast to usize exceeds isize::MAX: vec![0; length] panics.
read_string_body(d, p, length) ==
  Try(read_exact(d, p, length), LAMBDA r : IF Utf8Valid(r.val) THEN r ELSE Fail("panic"))

read_string(d, p, e) ==
  IF e = "LittleVarInt"
  THEN Try(read_var_int(d, p),
           LAMBDA l : IF IsNegative(l.val) THEN Fail("panic")
                      ELSE read_string_body(d, l.pos, NatOf(l.val)))
  ELSE Try(read_unsigned_short(d, p, e), LAMBDA l : read_string_body(d, l.pos, l.val))

\* the length of an array or a list: an i32 cast to usize, handed to
\* Vec::with_capacity, which panics when the capacity exceeds isize::MAX
read_length(d, p, e, oc) ==
  Try(IF e = "LittleVarInt" THEN read_var_int_zig_zag(d, p, oc) ELSE read_int(d, p, e, oc),
      LAMBDA l : IF IsNegative(l.val) THEN Fail("panic") ELSE Ok(NatOf(l.val), l.pos))

RECURSIVE read_byte_array_loop(_, _, _, _)
read_byte_array_loop(d, p, n, value) ==
  IF n = 0 THEN Ok(value, p)
  ELSE Try(read_byte(d, p),
           LAMBDA r : read_byte_array_loop(d, r.pos, n - 1, Append(value, r.val)))

read_byte_array(d, p, e, oc) ==
  Try(read_length(d, p, e, oc), LAMBDA l : read_byte_array_loop(d, l.pos, l.val, <<>>))

RECURSIVE read_int_array_loop(_, _, _, _, _, _)
read_int_array_loop(d, p, e, oc, n, value) ==
  IF n = 0 THEN Ok(value, p)
  ELSE Try(read_int(d, p, e, oc),
           LAMBDA r : read_int_array_loop(d, r.pos, e, oc, n - 1, Append(value, r.val)))

read_int_array(d, p, e, oc) ==
  Try(read_length(d, p, e, oc), LAMBDA l : read_int_array_loop(d, l.pos, e, oc, l.val, <<>>))

RECURSIVE read_long_array_loop(_, _, _, _, _)
read_long_array_loop(d, p, e, n, value) ==
  IF n = 0 THEN Ok(value, p)
  ELSE Try(read_long(d, p, e),
           LAMBDA r : read_long_array_loop(d, r.pos, e, n - 1, Append(value, r.val)))

read_long_array(d, p, e, oc) ==
  Try(read_length(d, p, e, oc), LAMBDA l : read_long_array_loop(d, l.pos, e, l.val, <<>>))

\* IndexMap::insert: a new key is appended; an existing key keeps its position
\* and takes the new value
\* a mapping that moves a key written again to the end
IndexMapInsert_MoveToEnd(m, name, entry) ==
  Append(SelectSeq(m, LAMBDA x : x.name # name), [name |-> name, value |-> entry])

IndexMapInsert(m, name, entry) ==
  IF \E i \in 1..Len(m) : m[i].name = name
  THEN [i \in 1..Len(m) |-> IF m[i].name = name THEN [name |-> name, value |-> entry] ELSE m[i]]
  ELSE Append(m, [name |-> name, value |-> entry])

\* Ok(Tag::Kind(payload?))
Wrap(id, r) == Try(r, LAMBDA x : Ok(MkTag(id, x.val), x.pos))

RECURSIVE read_tag(_, _, _, _, _)
RECURSIVE read_list_loop(_, _, _, _, _, _, _)
RECURSIVE read_compound_loop(_, _, _, _, _)

read_list(d, p, e, oc) ==
  Try(read_tag_id(d, p),
      LAMBDA t : Try(read_length(d, t.pos, e, oc),
                     LAMBDA l : read_list_loop(d, l.pos, e, oc, t.val, l.val, <<>>)))

\* a loop that reads every element after the first as a Byte
read_list_loop_ByteAfterFirst(d, p, e, oc, tag_id, n, value) ==
  IF n = 0 THEN Ok(value, p)
  ELSE Try(read_tag(d, p, e, oc, IF Len(value) = 0 THEN tag_id ELSE TagIdByte),
           LAMBDA r : read_list_loop(d, r.pos, e, oc, tag_id, n - 1, Append(value, r.val)))

\* a loop that reads no element of a list of End
read_list_loop_SkipEnd(d, p, e, oc, tag_id, n, value) ==
  IF n = 0 \/ tag_id = TagIdEnd THEN Ok(value, p)
  ELSE Try(read_tag(d, p, e, oc, tag_id),
           LAMBDA r : read_list_loop(d, r.pos, e, oc, tag_id, n - 1, Append(value, r.val)))

read_list_loop(d, p, e, oc, tag_id, n, value) ==
  IF n = 0 THEN Ok(value, p)
  ELSE Try(read_tag(d, p, e, oc, tag_id),
           LAMBDA r : read_list_loop(d, r.pos, e, oc, tag_id, n - 1, Append(value, r.val)))

read_compound(d, p, e, oc) == read_compound_loop(d, p, e, oc, <<>>)

read_compound_loop(d, p, e, oc, value) ==
  Try(read_tag_id(d, p),
      LAMBDA t :
        IF t.val = TagIdEnd THEN Ok(value, t.pos)
        ELSE Try(read_string(d, t.pos, e),
                 LAMBDA name :
                   Try(read_tag(d, name.pos, e, oc, t.val),
                       LAMBDA entry :
                         read_compound_loop(d, entry.pos, e, oc,
                                            IndexMapInsert(value, name.val, entry.val)))))

read_tag(d, p, e, oc, tag_id) ==
  CASE tag_id = TagIdEnd -> Fail("UnexpectedEnd")
    [] tag_id = TagIdByte -> Wrap(tag_id, read_byte(d, p))
    [] tag_id = TagIdShort -> Wrap(tag_id, read_short(d, p, e))
    [] tag_id = TagIdInt -> Wrap(tag_id, read_int(d, p, e, oc))
    [] tag_id = TagIdLong -> Wrap(tag_id, read_long(d, p, e))
    [] tag_id = TagIdFloat -> Wrap(tag_id, read_float(d, p, e))
    [] tag_id = TagIdDouble -> Wrap(tag_id, read_double(d, p, e))
    [] tag_id = TagIdByteArray -> Wrap(tag_id, read_byte_array(d, p, e, oc))
    [] tag_id = TagIdString -> Wrap(tag_id, read_string(d, p, e))
    [] tag_id = TagIdList -> Wrap(tag_id, read_list(d, p, e, oc))
    [] tag_id = TagIdCompound -> Wrap(tag_id, read_compound(d, p, e, oc))
    [] tag_id = TagIdIntArray -> Wrap(tag_id, read_int_array(d, p, e, oc))
    [] tag_id = TagIdLongArray -> Wrap(tag_id, read_long_array(d, p, e, oc))

\* read_bedrock_header: two little-endian u32, read and discarded by read_root
read_bedrock_header(d, p) ==
  Try(read_fixed(d, p, "Little", 4),
      LAMBDA storage_version :
        Try(read_fixed(d, storage_version.pos, "Little", 4),
            LAMBDA payload_len :
              Ok(<<storage_version.val, payload_len.val>>, payload_len.pos)))

read_root_at(d, p, e, oc) ==
  Try(read_tag_id(d, p),
      LAMBDA root_tag_id :
        Try(read_string(d, root_tag_id.pos, e),
            LAMBDA name : read_tag(d, name.pos, e, oc, root_tag_id.val)))

read_root(d, e, h, oc) ==
  IF h = "With"
  THEN Try(read_bedrock_header(d, 0), LAMBDA hd : read_root_at(d, hd.pos, e, oc))
  ELSE read_root_at(d, 0, e, oc)

(***************************************************************************)
(* The writer (src/write.rs).  Every write appends to the cursor's buffer, *)
(* so a write is the sequence of bytes it appends; only the header is      *)
(* written over bytes already there.                                       *)
(***************************************************************************)
write_unsigned_byte(value) == <<value>>

write_tag_id(tag_id) == write_unsigned_byte(TagIdAsU8(tag_id))

write_byte(value) == <<IF value < 0 THEN value + 256 ELSE value>>

write_unsigned_short(e, value) ==
  IF e = "Big" THEN <<value \div 256, value % 256>> ELSE <<value % 256, value \div 256>>

write_short(e, value) ==
  LET u == IF value < 0 THEN value + 65536 ELSE value
  IN IF e = "Big" THEN <<u \div 256, u % 256>> ELSE <<u % 256, u \div 256>>

write_int(e, value) == IF e = "Big" THEN BytesBE(value) ELSE BytesLE(value)

write_long(e, value) == IF e = "Big" THEN BytesBE(value) ELSE BytesLE(value)

write_float(e, value) == IF e = "Big" THEN BytesBE(value) ELSE BytesLE(value)

write_double(e, value) == IF e = "Big" THEN BytesBE(value) ELSE BytesLE(value)

\* `len as i32`
LenAsInt(n) == BitsOf(n, 32)

RECURSIVE write_bytes_loop(_)
write_bytes_loop(value) ==
  IF Len(value) = 0 THEN <<>> ELSE write_byte(value[1]) \o write_bytes_loop(Tail(value))

write_byte_array(e, value) == write_int(e, LenAsInt(Len(value))) \o write_bytes_loop(value)

\* `value.len() as u16` keeps the low 16 bits of the byte length
write_string(e, value) == write_unsigned_short(e, Len(value) % 65536) \o value

RECURSIVE write_int_array_loop(_, _)
write_int_array_loop(e, value) ==
  IF Len(value) = 0 THEN <<>>
  ELSE write_int(e, value[1]) \o write_int_array_loop(e, Tail(value))

write_int_array(e, value) == write_int(e, LenAsInt(Len(value))) \o write_int_array_loop(e, value)

RECURSIVE write_long_array_loop(_, _)
write_long_array_loop(e, value) ==
  IF Len(value) = 0 THEN <<>>
  ELSE write_long(e, value[1]) \o write_long_array_loop(e, Tail(value))

write_long_array(e, value) ==
  write_int(e, LenAsInt(Len(value))) \o write_long_array_loop(e, value)

RECURSIVE write_tag(_, _)
RECURSIVE write_list_loop(_, _)
RECURSIVE write_compound_loop(_, _)

write_list(e, value) ==
  IF Len(value) > 0
  THEN write_tag_id(TagIdOf(value[1])) \o write_int(e, LenAsInt(Len(value)))
       \o write_list_loop(e, value)
  ELSE write_tag_id(TagIdEnd) \o write_int(e, LenAsInt(0))

write_list_loop(e, value) ==
  IF Len(value) = 0 THEN <<>>
  ELSE write_tag(e, value[1]) \o write_list_loop(e, Tail(value))

write_compound(e, value) == write_compound_loop(e, value) \o write_tag_id(TagIdEnd)

write_compound_loop(e, value) ==
  IF Len(value) = 0 THEN <<>>
  ELSE write_tag_id(TagIdOf(value[1].value)) \o write_string(e, value[1].name)
       \o write_tag(e, value[1].value) \o write_compound_loop(e, Tail(value))

write_tag(e, t) ==
  CASE t.id = TagIdByte -> write_byte(t.i)
    [] t.id = TagIdShort -> write_short(e, t.i)
    [] t.id = TagIdInt -> write_int(e, t.s)
    [] t.id = TagIdLong -> write_long(e, t.s)
    [] t.id = TagIdFloat -> write_float(e, t.s)
    [] t.id = TagIdDouble -> write_double(e, t.s)
    [] t.id = TagIdByteArray -> write_byte_array(e, t.s)
    [] t.id = TagIdString -> write_string(e, t.s)
    [] t.id = TagIdList -> write_list(e, t.items)
    [] t.id = TagIdCompound -> write_compound(e, t.entries)
    [] t.id = TagIdIntArray -> write_int_array(e, t.nums)
    [] t.id = TagIdLongArray -> write_long_array(e, t.nums)

\* "StorageVersion"
StorageVersionKey == <<83, 116, 111, 114, 97, 103, 101, 86, 101, 114, 115, 105, 111, 110>>

\* IndexMap::get
IndexMapGet(m, name) ==
  IF \E i \in 1..Len(m) : m[i].name = name
  THEN <<(CHOOSE i \in 1..Len(m) : m[i].name = name)>>
  ELSE <<>>

\* a lookup that takes a StorageVersion of any kind
get_storage_version_AnyKind(t) ==
  IF t.id = TagIdCompound
  THEN LET hit == IndexMapGet(t.entries, StorageVersionKey)
       IN IF Len(hit) = 0 THEN Fail("ExpectedStorageVersion")
          ELSE Ok(t.entries[hit[1]].value.s, 0)
  ELSE Fail("ExpectedCompound")

get_storage_version(t) ==
  IF t.id = TagIdCompound
  THEN LET hit == IndexMapGet(t.entries, StorageVersionKey)
       IN IF Len(hit) = 0 THEN Fail("ExpectedStorageVersion")
          ELSE IF t.entries[hit[1]].value.id = TagIdInt THEN Ok(t.entries[hit[1]].value.s, 0)
          ELSE Fail("ExpectedInt")
  ELSE Fail("ExpectedCompound")

\* a header written big-endian
write_bedrock_header_BigEndian(t, payload_len) ==
  LET storage_version == get_storage_version(t)
  IN IF storage_version.err # "none" THEN storage_version
     ELSE Ok(BytesBE(storage_version.val) \o BytesBE(payload_len), 0)

\* the 8 header bytes: storage_version as u32, payload_len as u32, little-endian
write_bedrock_header(t, payload_len) ==
  LET storage_version == get_storage_version(t)
  IN IF storage_version.err # "none" THEN storage_version
     ELSE Ok(BytesLE(storage_version.val) \o BytesLE(payload_len), 0)

\* the buffer after seek(SeekFrom::Start(0)) and a write of `bytes`
\* a cursor that inserts at the start and moves the rest of the buffer back
WriteAtStart_Insert(buf, bytes) == bytes \o buf

WriteAtStart(buf, bytes) ==
  [i \in 1..(IF Len(bytes) > Len(buf) THEN Len(bytes) ELSE Len(buf)) |->
     IF i <= Len(bytes) THEN bytes[i] ELSE buf[i]]

HeaderBytes == 8

write_root(t, name, e, h) ==
  LET placeholders == IF h = "With" THEN [i \in 1..HeaderBytes |-> 0] ELSE <<>>
      buf == placeholders \o write_tag_id(TagIdOf(t)) \o write_string(e, name) \o write_tag(e, t)
  IN IF h = "With"
     THEN LET hd == write_bedrock_header(t, LenAsInt(Len(buf) - HeaderBytes))
          IN IF hd.err # "none" THEN hd ELSE Ok(WriteAtStart(buf, hd.val), 0)
     ELSE Ok(buf, 0)

(***************************************************************************)
(* The wire format of spec.md section 6, used only to draw well-formed     *)
(* input buffers: canonical (minimum-length) varints, zig-zag for Int,     *)
(* Long and the lengths, unsigned varint for string lengths.               *)
(***************************************************************************)
RECURSIVE WireVarUInt(_)
WireVarUInt(u) ==
  LET low == NatOf(SubSeq(u, 1, 7))
      rest == Shr(u, 7)
  IN IF rest = Zero(Len(u)) THEN <<low>> ELSE <<low + 128>> \o WireVarUInt(rest)

WireZigZag(v) == WireVarUInt(BitXor(Shl(v, 1), Sar(v, Len(v) - 1)))

WireFixed(e, v) == IF e = "Big" THEN BytesBE(v) ELSE BytesLE(v)

WireNum(e, v) == IF e = "LittleVarInt" THEN WireZigZag(v) ELSE WireFixed(e, v)

WireLen(e, n) == WireNum(e, BitsOf(n, 32))

WireString(e, str) ==
  (IF e = "LittleVarInt" THEN WireVarUInt(BitsOf(Len(str), 32))
   ELSE IF e = "Big" THEN <<Len(str) \div 256, Len(str) % 256>>
   ELSE <<Len(str) % 256, Len(str) \div 256>>) \o str

WireI8(b) == IF b < 0 THEN b + 256 ELSE b

WireI16(e, x) ==
  LET u == IF x < 0 THEN x + 65536 ELSE x
  IN IF e = "Big" THEN <<u \div 256, u % 256>> ELSE <<u % 256, u \div 256>>

\* the TagId byte of spec.md section 3
WireTagId(id) ==
  CASE id = "End" -> 0 [] id = "Byte" -> 1 [] id = "Short" -> 2 [] id = "Int" -> 3
    [] id = "Long" -> 4 [] id = "Float" -> 5 [] id = "Double" -> 6 [] id = "ByteArray" -> 7
    [] id = "String" -> 8 [] id = "List" -> 9 [] id = "Compound" -> 10
    [] id = "IntArray" -> 11 [] id = "LongArray" -> 12

RECURSIVE WireTag(_, _)
RECURSIVE WireSeq(_, _, _)
WireSeq(e, id, xs) ==
  IF Len(xs) = 0 THEN <<>>
  ELSE (CASE id = TagIdByteArray -> <<WireI8(xs[1])>>
          [] id = TagIdIntArray -> WireNum(e, xs[1])
          [] id = TagIdLongArray -> WireNum(e, xs[1])
          [] id = TagIdList -> WireTag(e, xs[1])
          [] id = TagIdCompound ->
               <<WireTagId(xs[1].value.id)>> \o WireString(e, xs[1].name) \o WireTag(e, xs[1].value))
       \o WireSeq(e, id, Tail(xs))

WireTag(e, t) ==
  CASE t.id = TagIdByte -> <<WireI8(t.i)>>
    [] t.id = TagIdShort -> WireI16(e, t.i)
    [] t.id \in {TagIdInt, TagIdLong} -> WireNum(e, t.s)
    [] t.id \in {TagIdFloat, TagIdDouble} -> WireFixed(e, t.s)
    [] t.id = TagIdString -> WireString(e, t.s)
    [] t.id \in {TagIdByteArray, TagIdIntArray, TagIdLongArray} ->
         WireLen(e, Len(PayloadOf(t))) \o WireSeq(e, t.id, PayloadOf(t))
    [] t.id = TagIdList ->
         <<WireTagId(IF Len(t.items) = 0 THEN "End" ELSE t.items[1].id)>> \o WireLen(e, Len(t.items))
         \o WireSeq(e, t.id, t.items)
    [] t.id = TagIdCompound -> WireSeq(e, t.id, t.entries) \o <<WireTagId("End")>>

WireBody(t, name, e) == <<WireTagId(t.id)>> \o WireString(e, name) \o WireTag(e, t)

\* a header can be formed only for a root Compound with an Int StorageVersion
HasStorageVersion(t) ==
  /\ t.id = TagIdCompound
  /\ \E i \in 1..Len(t.entries) : t.entries[i].name = StorageVersionKey /\ t.entries[i].value.id = TagIdInt

WireHeader(t, body) ==
  LET i == CHOOSE k \in 1..Len(t.entries) : t.entries[k].name = StorageVersionKey
  IN BytesLE(t.entries[i].value.s) \o BytesLE(BitsOf(Len(body), 32))

WireRoot(t, name, e, h) ==
  IF h = "With" THEN WireHeader(t, WireBody(t, name, e)) \o WireBody(t, name, e)
  ELSE WireBody(t, name, e)

(***************************************************************************)
(* The inputs: representative payloads of every kind, trees built from     *)
(* them, and the buffers that encode them.                                 *)
(***************************************************************************)
MaxLen == 2   \* elements of a generated array, list or compound
MaxOps == 4   \* calls in one run
MaxRawLen == 3   \* bytes of an arbitrary input buffer
MaxCorruptAt == 7   \* how far behind the header a damaged byte lies

SeqsUpTo(S, n) == UNION {[1..k -> S] : k \in 0..n}

I32(n) == BitsOf(n, 32)
I64(n) == BitsOf(n, 64)
IntMin == Shl(I32(1), 31)
LongMin == Shl(I64(1), 63)

ByteVals == {-128, -1, 127}
ShortVals == {-32768, 258, 32767}
IntVals == {I32(300), BitNot(I32(0)), IntMin, BitNot(IntMin)}
LongVals == {I64(1), BitNot(I64(0)), LongMin, Shl(I64(5), 38)}
FloatVals == {FromBytesBE(<<63, 128, 0, 0>>), FromBytesBE(<<127, 192, 0, 1>>)}
DoubleVals == {FromBytesBE(<<63, 240, 0, 0, 0, 0, 0, 0>>),
               FromBytesBE(<<255, 248, 0, 0, 0, 0, 0, 1>>)}
StringVals == {<<>>, <<97>>, <<195, 169>>}

Scalars ==
  {MkTag(TagIdByte, x) : x \in ByteVals} \cup {MkTag(TagIdShort, x) : x \in ShortVals}
  \cup {MkTag(TagIdInt, x) : x \in IntVals} \cup {MkTag(TagIdLong, x) : x \in LongVals}
  \cup {MkTag(TagIdFloat, x) : x \in FloatVals} \cup {MkTag(TagIdDouble, x) : x \in DoubleVals}
  \cup {MkTag(TagIdString, x) : x \in StringVals}

Arrays ==
  {MkTag(TagIdByteArray, x) : x \in SeqsUpTo({-1, 127}, MaxLen)}
  \cup {MkTag(TagIdIntArray, x) : x \in SeqsUpTo({I32(1), IntMin}, MaxLen)}
  \cup {MkTag(TagIdLongArray, x) : x \in SeqsUpTo({Shl(I64(5), 38)}, MaxLen)}

KeyA == <<97>>
KeyB == <<98, 99>>

\* the elements lists are built from
ElemsOf(id) ==
  CASE id = TagIdByte -> {MkTag(id, -1)}
    [] id = TagIdShort -> {MkTag(id, 258)}
    [] id = TagIdInt -> {MkTag(id, I32(300)), MkTag(id, IntMin)}
    [] id = TagIdLong -> {MkTag(id, LongMin)}
    [] id = TagIdFloat -> {MkTag(id, FromBytesBE(<<63, 128, 0, 0>>))}
    [] id = TagIdDouble -> {MkTag(id, FromBytesBE(<<63, 240, 0, 0, 0, 0, 0, 0>>))}
    [] id = TagIdByteArray -> {MkTag(id, <<-1>>)}
    [] id = TagIdString -> {MkTag(id, <<>>), MkTag(id, <<195, 169>>)}
    [] id = TagIdList -> {MkTag(id, <<>>), MkTag(id, <<MkTag(TagIdByte, 0)>>)}
    [] id = TagIdCompound ->
         {MkTag(id, <<>>), MkTag(id, <<[name |-> KeyA, value |-> MkTag(TagIdInt, I32(1))]>>)}
    [] id = TagIdIntArray -> {MkTag(id, <<IntMin>>)}
    [] id = TagIdLongArray -> {MkTag(id, <<>>)}

Lists ==
  {MkTag(TagIdList, x) : x \in UNION {SeqsUpTo(ElemsOf(id), MaxLen) : id \in TagIds \ {TagIdEnd}}}

CompoundVals ==
  {MkTag(TagIdInt, BitNot(I32(0))), MkTag(TagIdString, <<97>>),
   MkTag(TagIdList, <<MkTag(TagIdShort, 258)>>)}

Compounds ==
  {MkTag(TagIdCompound, x) :
     x \in {m \in SeqsUpTo([name : {KeyA, KeyB}, value : CompoundVals], MaxLen) :
              \A i, j \in 1..Len(m) : m[i].name = m[j].name => i = j}}

StorageVersionEntry(v) == [name |-> StorageVersionKey, value |-> MkTag(TagIdInt, v)]

VersionedCompounds ==
  {MkTag(TagIdCompound, <<StorageVersionEntry(I32(8))>>),
   MkTag(TagIdCompound, <<[name |-> KeyA, value |-> MkTag(TagIdInt, BitNot(I32(0)))],
                          StorageVersionEntry(I32(10))>>),
   MkTag(TagIdCompound, <<StorageVersionEntry(BitNot(I32(0))),
                          [name |-> KeyA, value |-> MkTag(TagIdList, <<MkTag(TagIdShort, 258)>>)]>>)}

\* "empty"
KeyEmpty == <<101, 109, 112, 116, 121>>

\* Compound{"empty" = List[]}
EmptyListCompound == MkTag(TagIdCompound, <<[name |-> KeyEmpty, value |-> MkTag(TagIdList, <<>>)]>>)

\* the trees the reader can return and a conforming encoder can encode
Trees ==
  Scalars \cup Arrays \cup Lists \cup Compounds \cup VersionedCompounds \cup {EmptyListCompound}

\* root Compounds whose StorageVersion is not an Int
MisversionedCompounds ==
  {MkTag(TagIdCompound, <<[name |-> StorageVersionKey, value |-> MkTag(TagIdString, <<97>>)]>>),
   MkTag(TagIdCompound, <<[name |-> KeyA, value |-> MkTag(TagIdInt, I32(1))],
                          [name |-> StorageVersionKey, value |-> MkTag(TagIdShort, 258)]>>)}

\* trees only user code can build: lists whose elements differ in kind
MixedLists ==
  {MkTag(TagIdList, <<MkTag(TagIdByte, 1), MkTag(TagIdShort, 258)>>),
   MkTag(TagIdList, <<MkTag(TagIdString, <<97>>), MkTag(TagIdInt, I32(1))>>)}

\* the roots that are also tried under a root name that is not empty
NamedRoots ==
  {MkTag(TagIdString, x) : x \in StringVals}
  \cup {MkTag(TagIdCompound, <<StorageVersionEntry(I32(8))>>)}

RootNamesOf(t) == IF t \in NamedRoots THEN {<<>>, <<76, 101>>} ELSE {<<>>}

Rep(b, n) == [i \in 1..n |-> b]

\* varints as they can stand on the wire: minimum-length, padded, of the full
\* width, with payload bits past the width, and longer than the width allows
ProbeVarInts ==
  {<<0>>, <<1>>, <<2>>, <<3>>, <<127>>, <<128, 1>>, <<172, 2>>, <<128, 0>>, <<129, 128, 0>>,
   <<255, 255, 255, 255, 15>>, <<254, 255, 255, 255, 15>>, <<128, 128, 128, 128, 8>>,
   <<255, 255, 255, 255, 7>>,
   <<255, 255, 255, 255, 127>>, <<128, 128, 128, 128, 16>>, <<130, 128, 128, 128, 16>>,
   Rep(128, 5) \o <<1>>, <<130>> \o Rep(128, 4) \o <<1>>, Rep(255, 8) \o <<127>>,
   Rep(255, 9) \o <<1>>, Rep(254, 1) \o Rep(255, 8) \o <<1>>, Rep(128, 9) \o <<1>>,
   Rep(128, 9) \o <<2>>, <<130>> \o Rep(128, 8) \o <<2>>, Rep(255, 9) \o <<127>>,
   Rep(128, 10) \o <<1>>, Rep(255, 10) \o <<1>>}

\* what comes before the probed varint: a root of the kind that reads it there
ProbeHeads ==
  {<<3, 0>>, <<4, 0>>, <<8, 0>>, <<7, 0>>, <<11, 0>>, <<12, 0>>, <<12, 0, 2>>, <<9, 0, 1>>,
   <<9, 0, 0>>, <<1>>}

ProbeTails == {<<>>, <<1>>}

Probes == {hd \o v \o tl : hd \in ProbeHeads, v \in ProbeVarInts, tl \in ProbeTails}

\* arbitrary short buffers over a few byte values: End, Byte, Compound, 255
RawBytes == {0, 1, 10, 255}

RawBuffers == SeqsUpTo(RawBytes, MaxRawLen)

\* the values a damaged byte takes
CorruptBytes == {0, 13, 255}

Source(kind, from, at) == [kind |-> kind, from |-> from, at |-> at]

(***************************************************************************)
(* The runs: a caller holds a buffer or a tree and calls read_root and     *)
(* write_root in turn, as check_symmetry_tagged does, with one dialect,    *)
(* header flag and root name throughout.                                   *)
(***************************************************************************)
\* the number of values of the u16 length prefix of a string
U16Range == 65536

\* a root name one byte longer than the largest u16
LongName == Rep(97, U16Range + 1)

\* entry lists only a foreign writer can emit: a key stands more than once
DuplicateKeyed ==
  {<<[name |-> KeyA, value |-> MkTag(TagIdByte, 1)], [name |-> KeyA, value |-> MkTag(TagIdByte, 2)]>>,
   <<[name |-> KeyA, value |-> MkTag(TagIdByte, 1)], [name |-> KeyA, value |-> MkTag(TagIdShort, 258)]>>,
   <<[name |-> KeyA, value |-> MkTag(TagIdByte, 1)], [name |-> <<98>>, value |-> MkTag(TagIdByte, 2)],
     [name |-> KeyA, value |-> MkTag(TagIdByte, 3)]>>,
   <<[name |-> <<98>>, value |-> MkTag(TagIdString, <<97>>)],
     [name |-> KeyA, value |-> MkTag(TagIdByte, 1)],
     [name |-> KeyA, value |-> MkTag(TagIdByte, 2)],
     [name |-> <<98>>, value |-> MkTag(TagIdByte, 3)]>>,
   <<[name |-> <<>>, value |-> MkTag(TagIdByte, 1)], [name |-> <<>>, value |-> MkTag(TagIdByte, 1)],
     [name |-> <<>>, value |-> MkTag(TagIdShort, -2)]>>}

\* the bytes of a root Compound that lists the entries es as they stand
DuplicateWire(es, e) == WireRoot(MkTag(TagIdCompound, es), <<>>, e, "Without")

NegativeLengths == {I32(-1), I32(-2), IntMin}

\* the 5-byte LEB128 forms that read_var_int turns into a negative i32
NegativeVarInts == {<<255, 255, 255, 255, 15>>, <<128, 128, 128, 128, 8>>}

\* buffers whose first length field is negative: a root ByteArray, IntArray,
\* LongArray or List of Byte, followed by nothing or by one more byte; under
\* LittleVarInt also a root String and a root name with a negative length
NegativeLengthWires(e) ==
  {<<id>> \o WireString(e, <<>>) \o (IF id = 9 THEN <<1>> ELSE <<>>) \o WireNum(e, n) \o tl :
     id \in {7, 9, 11, 12}, n \in NegativeLengths, tl \in {<<>>, <<1>>}}
  \cup (IF e = "LittleVarInt"
        THEN {<<8, 0>> \o v \o tl : v \in NegativeVarInts, tl \in {<<>>, <<97>>}}
             \cup {<<1>> \o v \o tl : v \in NegativeVarInts, tl \in {<<>>, <<97>>}}
        ELSE {})

Init ==
  /\ endian \in Endians
  /\ header \in BedrockHeaders
  /\ hist = <<>>
  /\ user_value = <<>>
  /\ user_type = <<>>
  /\ \/ \E t \in Trees \cup MixedLists \cup MisversionedCompounds :
          /\ root_name \in RootNamesOf(t)
          /\ tag = <<t>>
          /\ data = <<>>
          /\ pc = "tree"
          /\ src = Source("tree", <<>>, 0)
     \/ \E t \in Trees :
          /\ header = "With" => HasStorageVersion(t)
          /\ root_name \in RootNamesOf(t)
          /\ tag = <<>>
          /\ data = WireRoot(t, root_name, endian, header)
          /\ pc = "bytes"
          /\ src = Source("canonical", <<>>, 0)
     \/ /\ endian = "LittleVarInt"
        /\ header = "Without"
        /\ root_name = <<>>
        /\ tag = <<>>
        /\ data \in Probes
        /\ pc = "bytes"
        /\ src = Source("probe", <<>>, 0)
     \/ /\ root_name = <<>>
        /\ tag = <<>>
        /\ data \in RawBuffers
        /\ pc = "bytes"
        /\ src = Source("raw", <<>>, 0)
     \/ \E es \in DuplicateKeyed :
          /\ header = "Without"
          /\ root_name = <<>>
          /\ tag = <<>>
          /\ data = DuplicateWire(es, endian)
          /\ pc = "bytes"
          /\ src = Source("duplicated", <<>>, 0)
     \/ /\ header = "Without"
        /\ root_name = <<>>
        /\ tag = <<>>
        /\ data \in NegativeLengthWires(endian)
        /\ pc = "bytes"
        /\ src = Source("negative", <<>>, 0)
     \/ /\ header = "Without"
        /\ root_name = LongName
        /\ tag = <<MkTag(TagIdByte, 1)>>
        /\ data = <<>>
        /\ pc = "tree"
        /\ src = Source("tree", <<>>, 0)

\* the buffer loses its end before it is read
Truncate ==
  /\ pc = "bytes"
  /\ src.kind = "canonical"
  /\ hist = <<>>
  /\ \E k \in 0..(Len(data) - 1) :
       /\ data' = SubSeq(data, 1, k)
       /\ src' = Source("truncated", data, k)
  /\ UNCHANGED <<endian, header, root_name, tag, pc, hist, user_value, user_type>>

\* one byte of the buffer is damaged before it is read
Corrupt ==
  /\ pc = "bytes"
  /\ src.kind = "canonical"
  /\ hist = <<>>
  /\ \E i \in 1..Len(data) : \E b \in CorruptBytes \ {data[i]} :
       /\ i <= (IF header = "With" THEN HeaderBytes ELSE 0) + MaxCorruptAt
       /\ data' = [data EXCEPT ![i] = b]
       /\ src' = Source("corrupted", data, i)
  /\ UNCHANGED <<endian, header, root_name, tag, pc, hist, user_value, user_type>>

Call(op, r, bytes, tree) ==
  [op |-> op, err |-> r.err, bytes |-> bytes, tree |-> tree, pos |-> r.pos]

\* read_root(&data, &endian, &header), in a build with or without overflow checks
ReadRoot ==
  /\ pc = "bytes"
  /\ Len(hist) < MaxOps
  /\ \E oc \in BOOLEAN :
       LET r == read_root(data, endian, header, oc)
           got == IF r.err = "none" THEN <<r.val>> ELSE <<>>
       IN /\ tag' = got
          /\ pc' = IF r.err = "none" THEN "tree"
                   ELSE IF r.err = "panic" THEN "aborted" ELSE "failed"
          /\ hist' = Append(hist, Call("read", r, data, got))
  /\ UNCHANGED <<endian, header, root_name, data, src, user_value, user_type>>

\* write_root(&tag, root_name, &endian, &header)
WriteRoot ==
  /\ pc = "tree"
  /\ Len(hist) < MaxOps
  /\ LET r == write_root(tag[1], root_name, endian, header)
     IN /\ data' = IF r.err = "none" THEN r.val ELSE <<>>
        /\ pc' = IF r.err = "none" THEN "bytes" ELSE "failed"
        /\ hist' = Append(hist, Call("write", r, IF r.err = "none" THEN r.val ELSE <<>>, tag))
  /\ UNCHANGED <<endian, header, root_name, tag, src, user_value, user_type>>

Next == ReadRoot \/ WriteRoot \/ Truncate \/ Corrupt

Spec == Init /\ [][Next]_vars

(***************************************************************************)
(* Properties.  hist[k] is the k-th call of the run: its operation, the    *)
(* error it returned ("none" for Ok, "panic" for an abort), the bytes it   *)
(* read or wrote, the tree it returned or was given.                       *)
(***************************************************************************)
HdrLen == IF header = "With" THEN HeaderBytes ELSE 0

DidRead(k) == Len(hist) >= k /\ hist[k].op = "read"

DidWrite(k) == Len(hist) >= k /\ hist[k].op = "write"

(***************************************************************************)
(* The wire as the format describes it, read off a buffer B without the    *)
(* reader: where a field lies and what it holds.                           *)
(***************************************************************************)
\* the index of the byte that ends the varint starting at byte i (0: it does not end)
RECURSIVE VarLast(_, _)
VarLast(B, i) ==
  IF i > Len(B) THEN 0 ELSE IF B[i] < 128 THEN i ELSE VarLast(B, i + 1)

\* the payload bits of the varint in bytes i..j, the least significant first
VarPayload(B, i, j) ==
  [k \in 1..(7 * (j - i + 1)) |-> ByteBits[B[i + ((k - 1) \div 7)]][((k - 1) % 7) + 1]]

\* a varint for a w-bit target starts at byte i: it ends within ceil(w/7)
\* bytes and has no payload bit past bit w
VarFits(B, i, w) ==
  LET j == VarLast(B, i)
  IN /\ j # 0
     /\ j - i + 1 <= (w + 6) \div 7
     /\ \A k \in 1..(7 * (j - i + 1)) : k > w => VarPayload(B, i, j)[k] = 0

\* a varint starts at byte i and ends, but exceeds the w-bit target
VarOverWidth(B, i, w) == VarLast(B, i) # 0 /\ ~VarFits(B, i, w)

\* the unsigned w-bit value U of the varint at byte i
VarU(B, i, w) ==
  LET j == VarLast(B, i)
  IN [k \in 1..w |-> IF k <= 7 * (j - i + 1) THEN VarPayload(B, i, j)[k] ELSE 0]

\* S = (U >> 1) XOR -(U & 1)
ZigZagOf(U) ==
  [k \in 1..Len(U) |-> IF k < Len(U) THEN (U[k + 1] + U[1]) % 2 ELSE U[1]]

\* the n-byte two's-complement value at bytes i..i+n-1 in byte order e
FixedAt(B, i, n, e) ==
  [k \in 1..(8 * n) |->
     ByteBits[B[IF e = "Big" THEN i + n - 1 - ((k - 1) \div 8) ELSE i + ((k - 1) \div 8)]]
             [((k - 1) % 8) + 1]]

\* the unsigned value of a bit vector below 2^31
RECURSIVE Unsigned(_)
Unsigned(v) ==
  IF Len(v) <= 8
  THEN CHOOSE b \in 0..((2 ^ Len(v)) - 1) : \A k \in 1..Len(v) : ByteBits[b][k] = v[k]
  ELSE Unsigned(SubSeq(v, 1, 8)) + 256 * Unsigned(SubSeq(v, 9, Len(v)))

\* the byte that ends the root name field, whose first byte is i, when the
\* field is whole and its text is ASCII (0 otherwise)
NameLast(B, i) ==
  IF endian = "LittleVarInt"
  THEN IF VarFits(B, i, 31)
       THEN LET j == VarLast(B, i)
                n == Unsigned(SubSeq(VarU(B, i, 32), 1, 31))
            IN IF n <= Len(B) - j /\ \A k \in (j + 1)..(j + n) : B[k] < 128 THEN j + n ELSE 0
       ELSE 0
  ELSE IF Len(B) >= i + 1
       THEN LET n == Unsigned(FixedAt(B, i, 2, endian))
            IN IF n <= Len(B) - (i + 1) /\ \A k \in (i + 2)..(i + 1 + n) : B[k] < 128
               THEN i + 1 + n ELSE 0
       ELSE 0

\* the array or list length whose first byte is i is whole
LengthWhole(B, i) ==
  IF endian = "LittleVarInt" THEN VarFits(B, i, 32) ELSE Len(B) >= i + 3

\* the signed 32-bit length S whose first byte is i
LengthAt(B, i) ==
  IF endian = "LittleVarInt" THEN ZigZagOf(VarU(B, i, 32)) ELSE FixedAt(B, i, 4, endian)

\* a tag of kind End lies in the tree
RECURSIVE HasEnd(_)
HasEnd(t) ==
  \/ t.id = TagIdEnd
  \/ \E k \in 1..Len(t.items) : HasEnd(t.items[k])
  \/ \E k \in 1..Len(t.entries) : HasEnd(t.entries[k].value)

\* the first call of the run read a LittleVarInt buffer that starts with a
\* root of kind id and an empty root name
ProbeAt(id) ==
  /\ src.kind = "probe"
  /\ DidRead(1)
  /\ Len(hist[1].bytes) >= 2
  /\ hist[1].bytes[1] = id
  /\ hist[1].bytes[2] = 0

\* the call c read a length S at a place with `avail` bytes behind it
LengthReadAs(c, S, avail) ==
  /\ c.err = "none" => ~IsNegative(S) /\ Len(PayloadOf(c.tree[1])) = Unsigned(SubSeq(S, 1, 31))
  /\ S = Zero(32) => c.err = "none"
  /\ (~IsNegative(S) /\ Unsigned(SubSeq(S, 1, 31)) > avail) => c.err = "IoError"

\* C1: for a well-formed buffer B, canonically encoded under the run's dialect
\* and header flag with the run's root name, read_root(B) succeeds and
\* write_root of the tree it returns succeeds and returns exactly B.
C1_ReadThenWriteReproducesBuffer ==
  src.kind = "canonical" =>
    /\ DidRead(1) => hist[1].err = "none"
    /\ DidWrite(2) => hist[2].err = "none" /\ hist[2].bytes = hist[1].bytes

\* C2: for a tree T that write_root encodes to B, read_root(B) succeeds with a
\* tree T2 and write_root(T2) returns exactly B.
C2_WriteThenReadThenWriteReproducesBuffer ==
  (src.kind = "tree" /\ DidWrite(1) /\ hist[1].err = "none") =>
    /\ DidRead(2) => hist[2].err = "none"
    /\ DidWrite(3) => hist[3].err = "none" /\ hist[3].bytes = hist[1].bytes

\* C3: under LittleVarInt the writer emits every Int, Long and length as a
\* zig-zag varint and every string length as an unsigned varint, none of them
\* as a fixed-width field: its output for a tree is the tree's varint encoding.
C3_WriterEmitsVarInts ==
  (endian = "LittleVarInt" /\ header = "Without" /\ src.kind = "tree" /\ DidWrite(1)
   /\ hist[1].tree[1] \in Trees /\ hist[1].err = "none") =>
    hist[1].bytes = WireRoot(hist[1].tree[1], root_name, endian, header)

C5_LongDecoding ==
  /\ (ProbeAt(4) /\ VarFits(hist[1].bytes, 3, 64)) =>
       /\ hist[1].err = "none"
       /\ hist[1].tree[1] = MkTag(TagIdLong, ZigZagOf(VarU(hist[1].bytes, 3, 64)))
  /\ (ProbeAt(12) /\ Len(hist[1].bytes) >= 3 /\ hist[1].bytes[3] = 2
      /\ VarFits(hist[1].bytes, 4, 64)) =>
       /\ hist[1].err = "none"
       /\ hist[1].tree[1] = MkTag(TagIdLongArray, <<ZigZagOf(VarU(hist[1].bytes, 4, 64))>>)
  /\ (endian # "LittleVarInt" /\ DidRead(1) /\ Len(hist[1].bytes) >= HdrLen + 11
      /\ hist[1].bytes[HdrLen + 1] = 4
      /\ hist[1].bytes[HdrLen + 2] = 0 /\ hist[1].bytes[HdrLen + 3] = 0) =>
       /\ hist[1].err = "none"
       /\ hist[1].tree[1] = MkTag(TagIdLong, FixedAt(hist[1].bytes, HdrLen + 4, 8, endian))

\* a Long whose varint has bit 63 of U set was read: U = 2^64 - 1, S = -2^63
C5_Witness ==
  /\ ProbeAt(4)
  /\ Len(hist[1].bytes) >= 12
  /\ SubSeq(hist[1].bytes, 3, 12) = Rep(255, 9) \o <<1>>
  /\ hist[1].tree = <<MkTag(TagIdLong, LongMin)>>

\* C6: when a varint exceeds its target width (more than 5 bytes or payload
\* bits past bit 31 for an Int, an array or list length or a string length;
\* more than 10 bytes or bits past bit 63 for a Long), read_root returns the
\* range error: never a truncated or wrapped value, never an abort.
C6_OverWidthVarIntIsRangeError ==
  /\ \A id \in {3, 7, 11, 12} :
       (ProbeAt(id) /\ VarOverWidth(hist[1].bytes, 3, 32)) => hist[1].err = "VarIntRange"
  /\ (ProbeAt(8) /\ VarOverWidth(hist[1].bytes, 3, 32)) => hist[1].err = "VarIntRange"
  /\ (ProbeAt(4) /\ VarOverWidth(hist[1].bytes, 3, 64)) => hist[1].err = "VarLongRange"

\* the byte of a root's List element TagId or first Compound entry TagId
InnerIdAt == HdrLen + 1 + Len(WireString(endian, root_name)) + 1

\* C7: where the reader expects a TagId byte (root, list element type,
\* compound entry), a byte in 13..255 makes read_root return UnknownType and
\* no tree, and a byte in 0..12 yields the kind with that wire value: the
\* tree returned has the kind of the root byte, its elements the kind of the
\* element byte, its first entry the kind of the entry byte, and the writer
\* emits the same byte for that kind.
C7_TagIdBytes ==
  /\ (DidRead(1) /\ Len(hist[1].bytes) > HdrLen /\ hist[1].bytes[HdrLen + 1] >= 13) =>
       hist[1].err = "UnknownType" /\ hist[1].tree = <<>>
  /\ (src.kind = "corrupted" /\ DidRead(1) /\ src.at = InnerIdAt
      /\ src.from[HdrLen + 1] \in {9, 10} /\ hist[1].bytes[InnerIdAt] >= 13) =>
       hist[1].err = "UnknownType" /\ hist[1].tree = <<>>
  /\ (DidRead(1) /\ hist[1].err = "none") =>
       /\ WireTagId(hist[1].tree[1].id) = hist[1].bytes[HdrLen + 1]
       /\ (src.kind = "canonical" /\ hist[1].tree[1].id = TagIdList) =>
            \A k \in 1..Len(hist[1].tree[1].items) :
              WireTagId(hist[1].tree[1].items[k].id) = hist[1].bytes[InnerIdAt]
       /\ (src.kind = "canonical" /\ hist[1].tree[1].id = TagIdCompound
           /\ Len(hist[1].tree[1].entries) > 0) =>
            WireTagId(hist[1].tree[1].entries[1].value.id) = hist[1].bytes[InnerIdAt]
       /\ (DidWrite(2) /\ hist[2].err = "none") =>
            hist[2].bytes[HdrLen + 1] = hist[1].bytes[HdrLen + 1]

\* a buffer whose List element TagId was damaged to a byte past 12 was read
C7_Witness ==
  /\ src.kind = "corrupted"
  /\ DidRead(1)
  /\ src.at = InnerIdAt
  /\ src.from[HdrLen + 1] = 9
  /\ hist[1].bytes[InnerIdAt] >= 13
  /\ hist[1].err = "UnknownType"

\* End is the root TagId of the buffer B
EndAtRoot(B) == Len(B) > HdrLen /\ B[HdrLen + 1] = 0

\* B is a root List with a readable name, element TagId End and a whole length
EndAsElement(B) ==
  /\ Len(B) > HdrLen + 1
  /\ B[HdrLen + 1] = 9
  /\ NameLast(B, HdrLen + 2) # 0
  /\ Len(B) > NameLast(B, HdrLen + 2)
  /\ B[NameLast(B, HdrLen + 2) + 1] = 0
  /\ LengthWhole(B, NameLast(B, HdrLen + 2) + 2)

\* the length of the List of EndAsElement
ElementCount(B) == LengthAt(B, NameLast(B, HdrLen + 2) + 2)

C9_TruncatedInputIsIoError ==
  (src.kind = "truncated" /\ DidRead(1)) =>
    hist[1].err = "IoError" /\ hist[1].tree = <<>>

\* a buffer cut inside its header was read
C9_Witness ==
  /\ src.kind = "truncated"
  /\ DidRead(1)
  /\ header = "With"
  /\ src.at > 0
  /\ src.at < HeaderBytes
  /\ hist[1].err = "IoError"

\* the first byte of the root name's text
NameTextAt == HdrLen + 1 + (Len(WireString(endian, root_name)) - Len(root_name)) + 1

StorageVersionOf(t) ==
  t.entries[CHOOSE k \in 1..Len(t.entries) : t.entries[k].name = StorageVersionKey].value.s

\* C11: with header flag With and a root Compound that holds an Int field
\* StorageVersion = v, write_root succeeds under every dialect; its output
\* has at least 8 bytes, bytes 0..3 are v as a little-endian 32-bit integer
\* and bytes 4..7 are (output length - 8) as a little-endian unsigned 32-bit
\* integer.
C11_HeaderHoldsVersionAndLength ==
  \A k \in 1..Len(hist) :
    (hist[k].op = "write" /\ header = "With" /\ HasStorageVersion(hist[k].tree[1])) =>
      /\ hist[k].err = "none"
      /\ Len(hist[k].bytes) >= 8
      /\ FixedAt(hist[k].bytes, 1, 4, "Little") = StorageVersionOf(hist[k].tree[1])
      /\ Unsigned(FixedAt(hist[k].bytes, 5, 4, "Little")) = Len(hist[k].bytes) - 8

\* a tree with StorageVersion = 10 behind another entry was written with a header
C11_Witness ==
  /\ header = "With"
  /\ DidWrite(1)
  /\ HasStorageVersion(hist[1].tree[1])
  /\ StorageVersionOf(hist[1].tree[1]) = I32(10)
  /\ hist[1].err = "none"
  /\ SubSeq(hist[1].bytes, 1, 4) = <<10, 0, 0, 0>>

\* the root Compound t has an entry StorageVersion
HasStorageVersionKey(t) == \E k \in 1..Len(t.entries) : t.entries[k].name = StorageVersionKey

\* C12: with header flag With, write_root returns an error and no buffer when
\* the root is not a Compound (ExpectedCompound), when the root Compound has
\* no key StorageVersion (ExpectedStorageVersion), and when StorageVersion is
\* not an Int (ExpectedInt); with header flag Without it fails for none of
\* these reasons.
C12_HeaderErrors ==
  \A k \in 1..Len(hist) :
    hist[k].op = "write" =>
      /\ (header = "With" /\ hist[k].tree[1].id # TagIdCompound) =>
           hist[k].err = "ExpectedCompound" /\ hist[k].bytes = <<>>
      /\ (header = "With" /\ hist[k].tree[1].id = TagIdCompound
          /\ ~HasStorageVersionKey(hist[k].tree[1])) =>
           hist[k].err = "ExpectedStorageVersion" /\ hist[k].bytes = <<>>
      /\ (header = "With" /\ hist[k].tree[1].id = TagIdCompound
          /\ HasStorageVersionKey(hist[k].tree[1]) /\ ~HasStorageVersion(hist[k].tree[1])) =>
           hist[k].err = "ExpectedInt" /\ hist[k].bytes = <<>>
      /\ header = "Without" =>
           hist[k].err \notin {"ExpectedCompound", "ExpectedStorageVersion", "ExpectedInt"}

\* a root Compound whose StorageVersion is a Short was refused with a header
C12_Witness ==
  /\ header = "With"
  /\ DidWrite(1)
  /\ hist[1].tree[1] \in MisversionedCompounds
  /\ hist[1].err = "ExpectedInt"
  /\ pc = "failed"

\* what the write call c emitted behind the root TagId and the root name
WrittenPayload(c) ==
  SubSeq(c.bytes, HdrLen + 1 + Len(write_string(endian, root_name)) + 1, Len(c.bytes))

\* C13: for an empty List, at the root or inside a List or a Compound,
\* write_root emits the element TagId 0 and the length 0 in the dialect's
\* length encoding and nothing else; Compound{"empty" = List[]} with root name
\* "" under Big without a header encodes to 0A 00 00 09 00 05 "empty" 00 00
\* 00 00 00 00, and reading those bytes back yields the empty List.
C13_EmptyListEncoding ==
  /\ \A k \in 1..Len(hist) :
       (hist[k].op = "write" /\ header = "Without") =>
         /\ hist[k].tree[1] = MkTag(TagIdList, <<>>) =>
              /\ hist[k].err = "none"
              /\ WrittenPayload(hist[k]) = <<0>> \o WireLen(endian, 0)
         /\ hist[k].tree[1] = MkTag(TagIdList, <<MkTag(TagIdList, <<>>)>>) =>
              /\ hist[k].err = "none"
              /\ WrittenPayload(hist[k]) = <<9>> \o WireLen(endian, 1) \o <<0>> \o WireLen(endian, 0)
         /\ (hist[k].tree[1] = EmptyListCompound /\ endian = "Big" /\ root_name = <<>>) =>
              /\ hist[k].err = "none"
              /\ hist[k].bytes = <<10, 0, 0, 9, 0, 5>> \o KeyEmpty \o <<0, 0, 0, 0, 0, 0>>
  /\ \A k \in 1..Len(hist) :
       (hist[k].op = "read" /\ endian = "Big" /\ header = "Without"
        /\ hist[k].bytes = <<10, 0, 0, 9, 0, 5>> \o KeyEmpty \o <<0, 0, 0, 0, 0, 0>>) =>
         hist[k].err = "none" /\ hist[k].tree = <<EmptyListCompound>>

\* the entries of a Compound as the format lays them out: for each entry, in
\* order, the TagId of the value, the key as a dialect string, the payload
RECURSIVE WireEntries(_, _)
WireEntries(e, entries) ==
  IF Len(entries) = 0 THEN <<>>
  ELSE <<WireTagId(entries[1].value.id)>> \o WireString(e, entries[1].name)
       \o WireTag(e, entries[1].value) \o WireEntries(e, Tail(entries))

\* C14: for a Compound, write_root emits the entries in insertion order, each
\* as the TagId byte of the value, the key as a dialect string and the
\* payload, and then one End TagId byte (0) as the last byte of the payload.
C14_CompoundEncoding ==
  \A k \in 1..Len(hist) :
    (hist[k].op = "write" /\ hist[k].err = "none" /\ hist[k].tree[1].id = TagIdCompound
     /\ hist[k].tree[1] \in Trees) =>
      WrittenPayload(hist[k]) = WireEntries(endian, hist[k].tree[1].entries) \o <<0>>

\* every List in the tree t holds elements of one kind
RECURSIVE Homogeneous(_)
Homogeneous(t) ==
  /\ \A i, j \in 1..Len(t.items) : t.items[i].id = t.items[j].id
  /\ \A i \in 1..Len(t.items) : Homogeneous(t.items[i])
  /\ \A i \in 1..Len(t.entries) : Homogeneous(t.entries[i].value)

\* C15: every List in every tree read_root returns is homogeneous: all its
\* elements have the kind of the element TagId byte read for that List, at
\* every depth (the byte is checked for the root List, whose place in the
\* buffer follows the root name).
C15_ListsAreHomogeneous ==
  \A k \in 1..Len(hist) :
    (hist[k].op = "read" /\ hist[k].err = "none") =>
      /\ Homogeneous(hist[k].tree[1])
      /\ (hist[k].tree[1].id = TagIdList /\ NameLast(hist[k].bytes, HdrLen + 2) # 0) =>
           \A i \in 1..Len(hist[k].tree[1].items) :
             WireTagId(hist[k].tree[1].items[i].id)
               = hist[k].bytes[NameLast(hist[k].bytes, HdrLen + 2) + 1]

\* a List of two Lists, one of them holding a Byte, was read
C15_Witness ==
  /\ DidRead(1)
  /\ hist[1].err = "none"
  /\ hist[1].tree[1].id = TagIdList
  /\ Len(hist[1].tree[1].items) = 2
  /\ hist[1].tree[1].items[1].id = TagIdList
  /\ \E i \in 1..2 : Len(hist[1].tree[1].items[i].items) = 1

(***************************************************************************)
(* The binding layer, producer side (src/ser.rs).  A user value carries    *)
(* its declared shape: kind is the serde data-model type its Serialize     *)
(* impl presents; name the name of a newtype struct or of an enum variant  *)
(* (UTF-8 bytes); b a bool; n an i8, i16, u8, u16 or the code point of a   *)
(* char; s the bits of an i32, i64, u32, u64, f32 or f64, the UTF-8 bytes  *)
(* of a text, the u8s of a byte blob; items the elements of a sequence,    *)
(* the content of a newtype or of Some; fields the (name, value) pairs of  *)
(* a record or mapping; elem a value of the element type of a sequence,    *)
(* mapping or Option.                                                      *)
(***************************************************************************)
NoValue ==
  [kind |-> "", name |-> <<>>, b |-> FALSE, n |-> 0, s |-> <<>>, items |-> <<>>,
   fields |-> <<>>, elem |-> <<>>]

VBool(v) == [NoValue EXCEPT !.kind = "bool", !.b = v]

VNum(kind, v) == [NoValue EXCEPT !.kind = kind, !.n = v]

VBits(kind, v) == [NoValue EXCEPT !.kind = kind, !.s = v]

VSeq(proto, items) == [NoValue EXCEPT !.kind = "seq", !.elem = <<proto>>, !.items = items]

VNewtype(name, inner) == [NoValue EXCEPT !.kind = "newtype", !.name = name, !.items = <<inner>>]

VStruct(fields) == [NoValue EXCEPT !.kind = "struct", !.fields = fields]

VMap(proto, fields) == [NoValue EXCEPT !.kind = "map", !.elem = <<proto>>, !.fields = fields]

VUnitVariant(variant) == [NoValue EXCEPT !.kind = "unit_variant", !.name = variant]

VNewtypeVariant(variant, inner) ==
  [NoValue EXCEPT !.kind = "newtype_variant", !.name = variant, !.items = <<inner>>]

VNone(proto) == [NoValue EXCEPT !.kind = "option", !.elem = <<proto>>]

VSome(inner) == [NoValue EXCEPT !.kind = "option", !.elem = <<inner>>, !.items = <<inner>>]

VUnit == [NoValue EXCEPT !.kind = "unit"]

VUnitStruct(name) == [NoValue EXCEPT !.kind = "unit_struct", !.name = name]

VTuple(items) == [NoValue EXCEPT !.kind = "tuple", !.items = items]

VTupleStruct(name, items) == [NoValue EXCEPT !.kind = "tuple_struct", !.name = name, !.items = items]

VTupleVariant(variant, items) ==
  [NoValue EXCEPT !.kind = "tuple_variant", !.name = variant, !.items = items]

VStructVariant(variant, fields) ==
  [NoValue EXCEPT !.kind = "struct_variant", !.name = variant, !.fields = fields]

\* a type that takes whatever the input holds (it calls deserialize_any)
VAny == [NoValue EXCEPT !.kind = "any"]

\* `v as i8` of a u8
AsI8(v) == IF v >= 128 THEN v - 256 ELSE v

\* `v as i16` of a u16
AsI16(v) == IF v >= 32768 THEN v - 65536 ELSE v

\* char::to_string: the UTF-8 encoding of a code point
CharToString(c) ==
  IF c < 128 THEN <<c>>
  ELSE IF c < 2048 THEN <<192 + (c \div 64), 128 + (c % 64)>>
  ELSE IF c < 65536 THEN <<224 + (c \div 4096), 128 + ((c \div 64) % 64), 128 + (c % 64)>>
  ELSE <<240 + (c \div 262144), 128 + ((c \div 4096) % 64), 128 + ((c \div 64) % 64),
         128 + (c % 64)>>

\* impl From<&[u8]> for ByteArrayTag
ByteArrayTagFrom(slice) == [i \in 1..Len(slice) |-> AsI8(slice[i])]

serialize_bool(v) == Ok(MkTag(TagIdByte, IF v THEN 1 ELSE 0), 0)

serialize_i8(v) == Ok(MkTag(TagIdByte, v), 0)

serialize_i16(v) == Ok(MkTag(TagIdShort, v), 0)

serialize_i32(v) == Ok(MkTag(TagIdInt, v), 0)

serialize_i64(v) == Ok(MkTag(TagIdLong, v), 0)

\* a serializer that stores the u8 as it is
serialize_u8_NoCast(v) == Ok(MkTag(TagIdByte, v), 0)

serialize_u8(v) == Ok(MkTag(TagIdByte, AsI8(v)), 0)

serialize_u16(v) == Ok(MkTag(TagIdShort, AsI16(v)), 0)

\* `v as i32`: the same 32 bits
serialize_u32(v) == Ok(MkTag(TagIdInt, SubSeq(v, 1, 32)), 0)

\* `v as i64`: the same 64 bits
serialize_u64(v) == Ok(MkTag(TagIdLong, SubSeq(v, 1, 64)), 0)

serialize_f32(v) == Ok(MkTag(TagIdFloat, v), 0)

serialize_f64(v) == Ok(MkTag(TagIdDouble, v), 0)

serialize_char(v) == Ok(MkTag(TagIdString, CharToString(v)), 0)

serialize_str(v) == Ok(MkTag(TagIdString, v), 0)

serialize_bytes(v) == Ok(MkTag(TagIdByteArray, ByteArrayTagFrom(v)), 0)

serialize_none == Fail("SerializeError")

serialize_unit == Fail("SerializeError")

serialize_unit_struct(name) == Fail("SerializeError")

serialize_unit_variant(variant) == Ok(MkTag(TagIdString, variant), 0)

\* SerializeMap::serialize_key, which SerializeMap::serialize_entry calls first
serialize_key(key) == Fail("SerializeError")

RECURSIVE Serialize(_)

\* SerializeSeq::serialize_element for each element, then SerializeSeq::end
RECURSIVE SerializeList(_, _)
SerializeList(items, elements) ==
  IF Len(items) = 0 THEN Ok(MkTag(TagIdList, elements), 0)
  ELSE Try(Serialize(items[1]),
           LAMBDA r : SerializeList(Tail(items), Append(elements, r.val)))

\* SerializeStruct::serialize_field for each field in declaration order, then end
RECURSIVE SerializeCompound(_, _)
SerializeCompound(fs, fields) ==
  IF Len(fs) = 0 THEN Ok(MkTag(TagIdCompound, fields), 0)
  ELSE Try(Serialize(fs[1].value),
           LAMBDA r : SerializeCompound(Tail(fs), IndexMapInsert(fields, fs[1].name, r.val)))

\* serialize_map, then serialize_entry for each entry, then SerializeMap::end
serialize_map(entries) ==
  IF Len(entries) = 0 THEN Ok(MkTag(TagIdCompound, <<>>), 0) ELSE serialize_key(entries[1].name)

\* serialize_seq hands out an empty SerializeList
serialize_seq(items) == SerializeList(items, <<>>)

\* serialize_struct hands out an empty SerializeCompound
serialize_struct(fs) == SerializeCompound(fs, <<>>)

serialize_tuple(items) == serialize_seq(items)

\* SerializeTupleStruct::serialize_field for each field, then end
serialize_tuple_struct(name, items) == serialize_seq(items)

\* an empty SerializeList; SerializeTupleVariant::serialize_field for each field,
\* then end
serialize_tuple_variant(variant, items) == SerializeList(items, <<>>)

\* a SerializeCompound that holds the variant name with an empty Compound;
\* SerializeStructVariant::serialize_field for each field, then end
serialize_struct_variant(variant, fs) ==
  SerializeCompound(fs, IndexMapInsert(<<>>, variant, MkTag(TagIdCompound, <<>>)))

\* the name is printed and otherwise unused
serialize_newtype_struct(name, v) == Serialize(v)

serialize_some(v) == Serialize(v)

serialize_newtype_variant(variant, v) ==
  Try(Serialize(v),
      LAMBDA r : Ok(MkTag(TagIdCompound, IndexMapInsert(<<>>, variant, r.val)), 0))

\* value.serialize(TagSerializer): the Serialize impl of the value's type calls the
\* serializer method of its shape
Serialize(v) ==
  CASE v.kind = "bool" -> serialize_bool(v.b)
    [] v.kind = "i8" -> serialize_i8(v.n)
    [] v.kind = "i16" -> serialize_i16(v.n)
    [] v.kind = "i32" -> serialize_i32(v.s)
    [] v.kind = "i64" -> serialize_i64(v.s)
    [] v.kind = "u8" -> serialize_u8(v.n)
    [] v.kind = "u16" -> serialize_u16(v.n)
    [] v.kind = "u32" -> serialize_u32(v.s)
    [] v.kind = "u64" -> serialize_u64(v.s)
    [] v.kind = "f32" -> serialize_f32(v.s)
    [] v.kind = "f64" -> serialize_f64(v.s)
    [] v.kind = "char" -> serialize_char(v.n)
    [] v.kind = "String" -> serialize_str(v.s)
    [] v.kind = "bytes" -> serialize_bytes(v.s)
    [] v.kind = "option" -> IF Len(v.items) = 0 THEN serialize_none ELSE serialize_some(v.items[1])
    [] v.kind = "unit" -> serialize_unit
    [] v.kind = "unit_struct" -> serialize_unit_struct(v.name)
    [] v.kind = "tuple" -> serialize_tuple(v.items)
    [] v.kind = "tuple_struct" -> serialize_tuple_struct(v.name, v.items)
    [] v.kind = "tuple_variant" -> serialize_tuple_variant(v.name, v.items)
    [] v.kind = "struct_variant" -> serialize_struct_variant(v.name, v.fields)
    [] v.kind = "unit_variant" -> serialize_unit_variant(v.name)
    [] v.kind = "newtype" -> serialize_newtype_struct(v.name, v.items[1])
    [] v.kind = "newtype_variant" -> serialize_newtype_variant(v.name, v.items[1])
    [] v.kind = "seq" -> serialize_seq(v.items)
    [] v.kind = "struct" -> serialize_struct(v.fields)
    [] v.kind = "map" -> serialize_map(v.fields)

to_tag(v) == Serialize(v)

(***************************************************************************)
(* The binding layer, consumer side (src/de.rs).  T is a value of the      *)
(* declared type: only its shape is used.  A todo!() is a panic.           *)
(***************************************************************************)
\* "ByteArray", "IntArray", "LongArray": the names deserialize_newtype_struct matches
NameByteArray == <<66, 121, 116, 101, 65, 114, 114, 97, 121>>
NameIntArray == <<73, 110, 116, 65, 114, 114, 97, 121>>
NameLongArray == <<76, 111, 110, 103, 65, 114, 114, 97, 121>>

\* the width of an integer shape
WidthOf(kind) ==
  CASE kind \in {"i8", "u8"} -> 8
    [] kind \in {"i16", "u16"} -> 16
    [] kind \in {"i32", "u32"} -> 32
    [] kind \in {"i64", "u64"} -> 64

\* a signed value resized to w bits: sign-extended or cut
Resize(x, w) == [i \in 1..w |-> IF i <= Len(x) THEN x[i] ELSE x[Len(x)]]

\* iN::try_from(x) succeeds
FitsSigned(x, w) == \A i \in w..Len(x) : x[i] = x[Len(x)]

\* uN::try_from(x) succeeds, x signed
FitsUnsigned(x, w) == ~IsNegative(x) /\ \A i \in (w + 1)..Len(x) : x[i] = 0

\* the number a signed vector of at most 16 bits holds
SignedOf(x) == IF IsNegative(x) THEN NatOf(x) - 2 ^ Len(x) ELSE NatOf(x)

\* the bits of an i8
I8Bits(n) == BitsOf(IF n < 0 THEN n + 256 ELSE n, 8)

\* seed.deserialize(x.into_deserializer()) of ByteArrayAccess, IntArrayAccess and
\* LongArrayAccess: the element type's visitor is handed visit_i8, visit_i32 or
\* visit_i64; an integer type takes the number when it fits, every other type
\* refuses it
VisitInteger(E, x) ==
  CASE E.kind \in {"i8", "i16"} ->
         IF FitsSigned(x, WidthOf(E.kind))
         THEN Ok(VNum(E.kind, SignedOf(Resize(x, WidthOf(E.kind)))), 0)
         ELSE Fail("Custom")
    [] E.kind \in {"i32", "i64"} ->
         IF FitsSigned(x, WidthOf(E.kind))
         THEN Ok(VBits(E.kind, Resize(x, WidthOf(E.kind))), 0)
         ELSE Fail("Custom")
    [] E.kind \in {"u8", "u16"} ->
         IF FitsUnsigned(x, WidthOf(E.kind))
         THEN Ok(VNum(E.kind, NatOf(Resize(x, WidthOf(E.kind)))), 0)
         ELSE Fail("Custom")
    [] E.kind \in {"u32", "u64"} ->
         IF FitsUnsigned(x, WidthOf(E.kind))
         THEN Ok(VBits(E.kind, Resize(x, WidthOf(E.kind))), 0)
         ELSE Fail("Custom")
    [] E.kind \in {"bool", "char", "String", "bytes", "option", "unit", "unit_variant",
                   "newtype", "newtype_variant", "seq", "struct", "map", "unit_struct",
                   "tuple", "tuple_struct", "tuple_variant", "struct_variant"} -> Fail("Custom")
    [] E.kind = "any" -> Ok(VAny, 0)

\* the numbers an array tag yields, as bit vectors
NumbersOf(t) ==
  IF t.id = TagIdByteArray THEN [i \in 1..Len(t.s) |-> I8Bits(t.s[i])] ELSE t.nums

\* SeqAccess::next_element_seed of the three array accesses, to the end
RECURSIVE NumberAccess(_, _, _)
NumberAccess(E, xs, got) ==
  IF Len(xs) = 0 THEN Ok(got, 0)
  ELSE Try(VisitInteger(E, xs[1]), LAMBDA r : NumberAccess(E, Tail(xs), Append(got, r.val)))

\* a deserializer that takes every non-zero Byte as true
deserialize_bool_NonZero(t) ==
  IF t.id = TagIdByte THEN Ok(VBool(t.i # 0), 0) ELSE Fail("ExpectedBoolean")

deserialize_bool(t) ==
  IF t.id = TagIdByte /\ t.i \in {0, 1} THEN Ok(VBool(t.i # 0), 0) ELSE Fail("ExpectedBoolean")

deserialize_i8(t) == IF t.id = TagIdByte THEN Ok(VNum("i8", t.i), 0) ELSE Fail("ExpectedByte")

deserialize_i16(t) == IF t.id = TagIdShort THEN Ok(VNum("i16", t.i), 0) ELSE Fail("ExpectedShort")

\* a deserializer that widens a Byte or a Short to an i32
deserialize_i32_Widening(t) ==
  IF t.id = TagIdInt THEN Ok(VBits("i32", t.s), 0)
  ELSE IF t.id \in {TagIdByte, TagIdShort}
  THEN Ok(VBits("i32", Resize(IF t.i < 0 THEN BitsOf(t.i + 65536, 16) ELSE BitsOf(t.i, 16), 32)), 0)
  ELSE Fail("ExpectedInt")

deserialize_i32(t) == IF t.id = TagIdInt THEN Ok(VBits("i32", t.s), 0) ELSE Fail("ExpectedInt")

deserialize_i64(t) == IF t.id = TagIdLong THEN Ok(VBits("i64", t.s), 0) ELSE Fail("ExpectedLong")

\* todo!()
deserialize_u8(t) == Fail("panic")

deserialize_u16(t) == Fail("panic")

deserialize_u32(t) == Fail("panic")

deserialize_u64(t) == Fail("panic")

deserialize_f32(t) == IF t.id = TagIdFloat THEN Ok(VBits("f32", t.s), 0) ELSE Fail("ExpectedFloat")

deserialize_f64(t) == IF t.id = TagIdDouble THEN Ok(VBits("f64", t.s), 0) ELSE Fail("ExpectedDouble")

deserialize_char(t) == Fail("panic")

deserialize_string(t) ==
  IF t.id = TagIdString THEN Ok(VBits("String", t.s), 0) ELSE Fail("ExpectedString")

deserialize_byte_buf(t) == Fail("panic")

deserialize_option(t) == Fail("panic")

deserialize_unit(t) == Fail("panic")

deserialize_unit_struct(t) == Fail("panic")

deserialize_tuple(t) == Fail("panic")

deserialize_tuple_struct(t) == Fail("panic")

deserialize_any(t) == Fail("panic")

deserialize_enum(t) == Fail("panic")

deserialize_ignored_any(t) == Fail("panic")

RECURSIVE Deserialize(_, _)

\* SeqAccess::next_element_seed of ListAccess, to the end
RECURSIVE ListAccess(_, _, _)
ListAccess(E, elements, got) ==
  IF Len(elements) = 0 THEN Ok(got, 0)
  ELSE Try(Deserialize(E, elements[1]),
           LAMBDA r : ListAccess(E, Tail(elements), Append(got, r.val)))

deserialize_seq(T, t) ==
  CASE t.id = TagIdList ->
         Try(ListAccess(T.elem[1], t.items, <<>>), LAMBDA r : Ok([T EXCEPT !.items = r.val], 0))
    [] t.id \in {TagIdByteArray, TagIdIntArray, TagIdLongArray} ->
         Try(NumberAccess(T.elem[1], NumbersOf(t), <<>>),
             LAMBDA r : Ok([T EXCEPT !.items = r.val], 0))
    [] OTHER -> Fail("ExpectedList")

\* the index of the declared field a key names, or 0
FieldIndex(T, name) ==
  IF \E i \in 1..Len(T.fields) : T.fields[i].name = name
  THEN CHOOSE i \in 1..Len(T.fields) : T.fields[i].name = name
  ELSE 0

\* a record's visitor after the last entry: a field no entry named is missing,
\* unless it is an Option, which is then None
StructEnd(T, got) ==
  IF \E i \in 1..Len(T.fields) :
       /\ T.fields[i].value.kind # "option"
       /\ \A j \in 1..Len(got) : got[j].name # T.fields[i].name
  THEN Fail("Custom")
  ELSE Ok([T EXCEPT !.fields =
             [i \in 1..Len(T.fields) |->
                IF \E j \in 1..Len(got) : got[j].name = T.fields[i].name
                THEN [name |-> T.fields[i].name,
                      value |-> got[CHOOSE j \in 1..Len(got) : got[j].name = T.fields[i].name].value]
                ELSE [name |-> T.fields[i].name, value |-> VNone(T.fields[i].value.elem[1])]]], 0)

\* MapAccess::next_key_seed and next_value_seed of CompoundAccess, driven by a
\* record's visitor: an entry no field is named after is skipped by deserializing
\* it as ignored
RECURSIVE StructAccess(_, _, _)
StructAccess(T, entries, got) ==
  IF Len(entries) = 0 THEN StructEnd(T, got)
  ELSE IF FieldIndex(T, entries[1].name) = 0
  THEN Try(deserialize_ignored_any(entries[1].value),
           LAMBDA r : StructAccess(T, Tail(entries), got))
  ELSE Try(Deserialize(T.fields[FieldIndex(T, entries[1].name)].value, entries[1].value),
           LAMBDA r : StructAccess(T, Tail(entries),
                                   Append(got, [name |-> entries[1].name, value |-> r.val])))

\* the same, driven by a text-keyed mapping's visitor
RECURSIVE MapAccess(_, _, _)
MapAccess(E, entries, got) ==
  IF Len(entries) = 0 THEN Ok(got, 0)
  ELSE Try(Deserialize(E, entries[1].value),
           LAMBDA r : MapAccess(E, Tail(entries),
                                Append(got, [name |-> entries[1].name, value |-> r.val])))

deserialize_map(T, t) ==
  IF t.id # TagIdCompound THEN Fail("ExpectedCompound")
  ELSE IF T.kind = "struct" THEN StructAccess(T, t.entries, <<>>)
  ELSE Try(MapAccess(T.elem[1], t.entries, <<>>), LAMBDA r : Ok([T EXCEPT !.fields = r.val], 0))

deserialize_struct(T, t) == deserialize_map(T, t)

\* the wrapper's visitor given a sequence: the numbers it yields are the content
WrapperVisitSeq(T, xs) ==
  Try(NumberAccess(T.items[1].elem[1], xs, <<>>),
      LAMBDA r : Ok([T EXCEPT !.items = <<[T.items[1] EXCEPT !.items = r.val]>>], 0))

\* Visitor::visit_newtype_struct: the content is deserialized from the same tag
visit_newtype_struct(T, t) ==
  Try(Deserialize(T.items[1], t), LAMBDA r : Ok([T EXCEPT !.items = <<r.val>>], 0))

deserialize_newtype_struct(T, t) ==
  CASE T.name = NameByteArray /\ t.id = TagIdByteArray -> WrapperVisitSeq(T, NumbersOf(t))
    [] T.name = NameIntArray /\ t.id = TagIdIntArray -> WrapperVisitSeq(T, NumbersOf(t))
    [] T.name = NameLongArray /\ t.id = TagIdLongArray -> WrapperVisitSeq(T, NumbersOf(t))
    [] OTHER -> visit_newtype_struct(T, t)

\* T::deserialize(deserializer): the Deserialize impl of the type calls the
\* deserializer method of its shape
Deserialize(T, t) ==
  CASE T.kind = "bool" -> deserialize_bool(t)
    [] T.kind = "i8" -> deserialize_i8(t)
    [] T.kind = "i16" -> deserialize_i16(t)
    [] T.kind = "i32" -> deserialize_i32(t)
    [] T.kind = "i64" -> deserialize_i64(t)
    [] T.kind = "u8" -> deserialize_u8(t)
    [] T.kind = "u16" -> deserialize_u16(t)
    [] T.kind = "u32" -> deserialize_u32(t)
    [] T.kind = "u64" -> deserialize_u64(t)
    [] T.kind = "f32" -> deserialize_f32(t)
    [] T.kind = "f64" -> deserialize_f64(t)
    [] T.kind = "char" -> deserialize_char(t)
    [] T.kind = "String" -> deserialize_string(t)
    [] T.kind = "bytes" -> deserialize_byte_buf(t)
    [] T.kind = "option" -> deserialize_option(t)
    [] T.kind = "unit" -> deserialize_unit(t)
    [] T.kind = "unit_struct" -> deserialize_unit_struct(t)
    [] T.kind = "tuple" -> deserialize_tuple(t)
    [] T.kind = "tuple_struct" -> deserialize_tuple_struct(t)
    [] T.kind = "any" -> deserialize_any(t)
    [] T.kind \in {"unit_variant", "newtype_variant", "tuple_variant", "struct_variant"} ->
         deserialize_enum(t)
    [] T.kind = "newtype" -> deserialize_newtype_struct(T, t)
    [] T.kind = "seq" -> deserialize_seq(T, t)
    [] T.kind = "struct" -> deserialize_struct(T, t)
    [] T.kind = "map" -> deserialize_map(T, t)

from_tag(T, t) == Deserialize(T, t)

(***************************************************************************)
(* The user values and types the binding layer is run on.                  *)
(***************************************************************************)
\* "name", "age", "Zesty", "extra", "Red", "Meters"
KeyName == <<110, 97, 109, 101>>
KeyAge == <<97, 103, 101>>
TextZesty == <<90, 101, 115, 116, 121>>
KeyExtra == <<101, 120, 116, 114, 97>>
VariantRed == <<82, 101, 100>>
NameMeters == <<77, 101, 116, 101, 114, 115>>

ScalarValues ==
  {VBool(v) : v \in BOOLEAN}
  \cup {VNum("i8", v) : v \in ByteVals} \cup {VNum("i16", v) : v \in ShortVals}
  \cup {VBits("i32", v) : v \in IntVals} \cup {VBits("i64", v) : v \in LongVals}
  \cup {VNum("u8", v) : v \in {0, 127, 128, 200, 255}}
  \cup {VNum("u16", v) : v \in {258, 32767, 32768, 65535}}
  \cup {VBits("u32", v) : v \in IntVals} \cup {VBits("u64", v) : v \in LongVals}
  \cup {VBits("f32", v) : v \in FloatVals} \cup {VBits("f64", v) : v \in DoubleVals}
  \cup {VNum("char", v) : v \in {97, 233, 8364, 128512}}
  \cup {VBits("String", v) : v \in StringVals}
  \cup {VBits("bytes", v) : v \in SeqsUpTo({0, 200}, MaxLen)}

\* Vec<i8>, Vec<i32>, Vec<i64>, Vec<String>
PlainSequences ==
  {VSeq(VNum("i8", 0), x) : x \in SeqsUpTo({VNum("i8", -1), VNum("i8", 2)}, MaxLen)}
  \cup {VSeq(VBits("i32", I32(0)), x) :
          x \in SeqsUpTo({VBits("i32", I32(300)), VBits("i32", IntMin)}, MaxLen)}
  \cup {VSeq(VBits("i64", I64(0)), x) : x \in SeqsUpTo({VBits("i64", LongMin)}, MaxLen)}
  \cup {VSeq(VBits("String", <<>>), x) : x \in SeqsUpTo({VBits("String", <<97>>)}, MaxLen)}

\* the element type a wrapper of a reserved name holds
WrapperElem(name) ==
  CASE name = NameByteArray -> "i8"
    [] name = NameIntArray -> "i32"
    [] name = NameLongArray -> "i64"

\* ByteArray(Vec<i8>), IntArray(Vec<i32>), LongArray(Vec<i64>)
Wrappers ==
  {w \in {VNewtype(name, x) : name \in {NameByteArray, NameIntArray, NameLongArray},
                              x \in PlainSequences} :
     w.items[1].elem[1].kind = WrapperElem(w.name)}

\* struct Person { name: String, age: i32 }
Person(name, age) ==
  VStruct(<<[name |-> KeyName, value |-> VBits("String", name)],
            [name |-> KeyAge, value |-> VBits("i32", age)]>>)

Records ==
  {Person(TextZesty, I32(42)), Person(<<>>, IntMin)}
  \cup {VStruct(<<[name |-> KeyA, value |-> w], [name |-> KeyB, value |-> VNum("i8", -1)]>>) :
          w \in {x \in Wrappers : Len(x.items[1].items) = 1}}
  \cup {VStruct(<<[name |-> KeyAge, value |-> VBits("i32", I32(42))],
                  [name |-> KeyExtra, value |-> o]>>) :
          o \in {VNone(VNum("i16", 0)), VSome(VNum("i16", 258))}}

OtherValues ==
  {VNewtype(NameMeters, VBits("i32", I32(300))),
   VMap(VBits("i32", I32(0)), <<>>),
   VMap(VBits("i32", I32(0)), <<[name |-> KeyA, value |-> VBits("i32", I32(1))]>>),
   VUnitVariant(VariantRed),
   VNewtypeVariant(VariantRed, VNum("i16", 258)),
   VTupleVariant(VariantRed, <<VNum("i16", 258), VBits("String", <<97>>)>>),
   VStructVariant(VariantRed, <<[name |-> KeyA, value |-> VNum("i8", -1)]>>),
   VStructVariant(VariantRed, <<>>),
   VTuple(<<VNum("i8", -1), VNum("i8", 2)>>),
   VTuple(<<VNum("i8", -1), VBits("String", <<97>>)>>),
   VTupleStruct(NameMeters, <<VBits("i32", I32(300)), VBits("i32", IntMin)>>),
   VUnitStruct(NameMeters),
   VNone(VNum("i8", 0)), VSome(VNum("i8", 127)), VUnit}

UserValues == ScalarValues \cup PlainSequences \cup Wrappers \cup Records \cup OtherValues

\* the kinds of ScalarValues, PlainSequences, ... one value each: the declared types
UserTypes ==
  {VBool(FALSE), VNum("i8", 0), VNum("i16", 0), VBits("i32", I32(0)), VBits("i64", I64(0)),
   VNum("u8", 0), VNum("u16", 0), VBits("u32", I32(0)), VBits("u64", I64(0)),
   VBits("f32", I32(0)), VBits("f64", I64(0)), VNum("char", 97), VBits("String", <<>>),
   VBits("bytes", <<>>)}
  \cup {x \in PlainSequences : Len(x.items) = 0}
  \cup {x \in Wrappers : Len(x.items[1].items) = 0}
  \cup {Person(<<>>, I32(0)),
        VStruct(<<[name |-> KeyAge, value |-> VBits("i32", I32(0))],
                  [name |-> KeyExtra, value |-> VNone(VNum("i16", 0))]>>),
        VNewtype(NameMeters, VBits("i32", I32(0))), VMap(VBits("i32", I32(0)), <<>>),
        VUnitVariant(VariantRed), VNone(VNum("i8", 0)), VUnit, VUnitStruct(NameMeters),
        VTuple(<<VNum("i8", 0), VNum("i8", 0)>>),
        VTupleStruct(NameMeters, <<VBits("i32", I32(0)), VBits("i32", I32(0))>>), VAny}

\* the trees from_tag is given directly
GivenTags ==
  {MkTag(TagIdByte, 0), MkTag(TagIdByte, 1), MkTag(TagIdByte, -1), MkTag(TagIdByte, 2),
   MkTag(TagIdByte, 127), MkTag(TagIdByte, -128), MkTag(TagIdShort, 1), MkTag(TagIdShort, 42),
   MkTag(TagIdInt, I32(42)), MkTag(TagIdLong, LongMin),
   MkTag(TagIdFloat, FromBytesBE(<<63, 128, 0, 0>>)),
   MkTag(TagIdDouble, FromBytesBE(<<63, 240, 0, 0, 0, 0, 0, 0>>)),
   MkTag(TagIdString, <<97>>),
   MkTag(TagIdByteArray, <<>>), MkTag(TagIdByteArray, <<-1, 2>>),
   MkTag(TagIdIntArray, <<I32(300)>>), MkTag(TagIdIntArray, <<I32(2), IntMin>>),
   MkTag(TagIdLongArray, <<I64(1)>>), MkTag(TagIdLongArray, <<LongMin>>),
   MkTag(TagIdList, <<>>), MkTag(TagIdList, <<MkTag(TagIdByte, -1), MkTag(TagIdByte, 2)>>),
   MkTag(TagIdList, <<MkTag(TagIdInt, I32(300))>>),
   MkTag(TagIdList, <<MkTag(TagIdLong, LongMin)>>),
   MkTag(TagIdList, <<MkTag(TagIdShort, 42)>>),
   MkTag(TagIdList, <<MkTag(TagIdInt, I32(300)), MkTag(TagIdShort, 42)>>),
   MkTag(TagIdCompound, <<>>),
   MkTag(TagIdCompound, <<[name |-> KeyName, value |-> MkTag(TagIdString, TextZesty)],
                          [name |-> KeyAge, value |-> MkTag(TagIdInt, I32(42))]>>),
   MkTag(TagIdCompound, <<[name |-> KeyAge, value |-> MkTag(TagIdInt, I32(42))],
                          [name |-> KeyName, value |-> MkTag(TagIdString, TextZesty)]>>),
   MkTag(TagIdCompound, <<[name |-> KeyName, value |-> MkTag(TagIdString, TextZesty)],
                          [name |-> KeyAge, value |-> MkTag(TagIdShort, 42)]>>),
   MkTag(TagIdCompound, <<[name |-> KeyName, value |-> MkTag(TagIdString, TextZesty)]>>),
   MkTag(TagIdCompound, <<[name |-> KeyAge, value |-> MkTag(TagIdInt, I32(42))]>>),
   MkTag(TagIdCompound, <<[name |-> KeyName, value |-> MkTag(TagIdString, TextZesty)],
                          [name |-> KeyAge, value |-> MkTag(TagIdInt, I32(42))],
                          [name |-> KeyExtra, value |-> MkTag(TagIdByte, 1)]>>)}

(***************************************************************************)
(* The binding layer as a state machine: a user value is turned into a     *)
(* tree, a tree into a value of the declared type.                         *)
(***************************************************************************)
BindInit ==
  /\ endian = "Big"
  /\ header = "Without"
  /\ root_name = <<>>
  /\ data = <<>>
  /\ hist = <<>>
  /\ \/ \E v \in UserValues :
          /\ user_value = <<v>>
          /\ user_type = <<v>>
          /\ tag = <<>>
          /\ pc = "value"
          /\ src = Source("value", <<>>, 0)
     \/ /\ user_value = <<>>
        /\ user_type \in {<<T>> : T \in UserTypes}
        /\ tag \in {<<t>> : t \in GivenTags}
        /\ pc = "tree"
        /\ src = Source("tree", <<>>, 0)

BindCall(op, r, v, tree) == [op |-> op, err |-> r.err, value |-> v, tree |-> tree]

\* to_tag(&value)
ToTag ==
  /\ pc = "value"
  /\ Len(hist) < MaxOps
  /\ LET r == to_tag(user_value[1])
         got == IF r.err = "none" THEN <<r.val>> ELSE <<>>
     IN /\ tag' = got
        /\ pc' = IF r.err = "none" THEN "tree" ELSE "failed"
        /\ hist' = Append(hist, BindCall("to_tag", r, user_value, got))
  /\ UNCHANGED <<endian, header, root_name, data, src, user_value, user_type>>

\* from_tag::<T>(tag)
FromTag ==
  /\ pc = "tree"
  /\ Len(hist) < MaxOps
  /\ LET r == from_tag(user_type[1], tag[1])
         got == IF r.err = "none" THEN <<r.val>> ELSE <<>>
     IN /\ user_value' = got
        /\ pc' = IF r.err = "none" THEN "value"
                 ELSE IF r.err = "panic" THEN "aborted" ELSE "failed"
        /\ hist' = Append(hist, BindCall("from_tag", r, got, tag))
  /\ UNCHANGED <<endian, header, root_name, data, src, tag, user_type>>

BindNext == ToTag \/ FromTag

BindSpec == BindInit /\ [][BindNext]_vars

(***************************************************************************)
(* Properties of the binding layer.                                        *)
(***************************************************************************)
\* the i-th call was to_tag
DidToTag(i) == i <= Len(hist) /\ hist[i].op = "to_tag"

\* the i-th call was from_tag
DidFromTag(i) == i <= Len(hist) /\ hist[i].op = "from_tag"

\* the code point a UTF-8 sequence of one character encodes
CodePointOf(bs) ==
  CASE Len(bs) = 1 -> bs[1]
    [] Len(bs) = 2 -> (bs[1] - 192) * 64 + (bs[2] - 128)
    [] Len(bs) = 3 -> (bs[1] - 224) * 4096 + (bs[2] - 128) * 64 + (bs[3] - 128)
    [] Len(bs) = 4 ->
         (bs[1] - 240) * 262144 + (bs[2] - 128) * 4096 + (bs[3] - 128) * 64 + (bs[4] - 128)

\* the two's-complement reinterpretation of an unsigned v of width w
Reinterpreted(v, w) == IF v < 2 ^ (w - 1) THEN v ELSE v - 2 ^ w

\* the tag the producer table gives for a scalar value
ScalarMapping(v, t) ==
  CASE v.kind = "bool" -> t.id = TagIdByte /\ t.i = (IF v.b THEN 1 ELSE 0)
    [] v.kind = "i8" -> t.id = TagIdByte /\ t.i = v.n
    [] v.kind = "i16" -> t.id = TagIdShort /\ t.i = v.n
    [] v.kind = "i32" -> t.id = TagIdInt /\ t.s = v.s
    [] v.kind = "i64" -> t.id = TagIdLong /\ t.s = v.s
    [] v.kind = "u8" -> t.id = TagIdByte /\ t.i = Reinterpreted(v.n, 8)
    [] v.kind = "u16" -> t.id = TagIdShort /\ t.i = Reinterpreted(v.n, 16)
    [] v.kind = "u32" -> t.id = TagIdInt /\ Len(t.s) = 32 /\ t.s = v.s
    [] v.kind = "u64" -> t.id = TagIdLong /\ Len(t.s) = 64 /\ t.s = v.s
    [] v.kind = "f32" -> t.id = TagIdFloat /\ t.s = v.s
    [] v.kind = "f64" -> t.id = TagIdDouble /\ t.s = v.s
    [] v.kind = "char" ->
         t.id = TagIdString /\ Utf8Valid(t.s) /\ Len(t.s) \in 1..4 /\ CodePointOf(t.s) = v.n
    [] v.kind = "String" -> t.id = TagIdString /\ t.s = v.s
    [] v.kind = "bytes" ->
         /\ t.id = TagIdByteArray
         /\ Len(t.s) = Len(v.s)
         /\ \A i \in 1..Len(v.s) : t.s[i] = Reinterpreted(v.s[i], 8)

ScalarKinds ==
  {"bool", "i8", "i16", "i32", "i64", "u8", "u16", "u32", "u64", "f32", "f64", "char",
   "String", "bytes"}

\* C16: to_tag of a scalar value succeeds with the tag of the producer table: a bool
\* is Byte(0) or Byte(1), a signed integer the tag of its width with the same
\* value, an unsigned integer the tag of its width holding its two's-complement
\* reinterpretation, a float the Float or Double of its bits, a char or a text the
\* String of its UTF-8 bytes, a byte blob the ByteArray of its bytes as i8s.
C16_ScalarMapping ==
  \A i \in 1..Len(hist) :
    (DidToTag(i) /\ hist[i].value[1].kind \in ScalarKinds)
      => /\ hist[i].err = "none"
         /\ Len(hist[i].tree) = 1
         /\ ScalarMapping(hist[i].value[1], hist[i].tree[1])

\* to_tag(200u8) has returned Byte(-56)
C16_Witness ==
  /\ DidToTag(1)
  /\ hist[1].value = <<VNum("u8", 200)>>
  /\ hist[1].tree = <<MkTag(TagIdByte, -56)>>

\* the array kind a reserved wrapper name stands for
ArrayKindOf(name) ==
  CASE name = NameByteArray -> TagIdByteArray
    [] name = NameIntArray -> TagIdIntArray
    [] name = NameLongArray -> TagIdLongArray

IsWrapper(v) == v.kind = "newtype" /\ v.name \in {NameByteArray, NameIntArray, NameLongArray}

IsPlainIntegerSequence(v) == v.kind = "seq" /\ v.elem[1].kind \in {"i8", "i16", "i32", "i64"}

\* C17: to_tag of a value whose declared shape is the wrapper named ByteArray,
\* IntArray or LongArray returns a tag of kind ByteArray, IntArray or LongArray
\* respectively, never a List; to_tag of a plain sequence of integers returns a List.
C17_WrappersBecomeArrays ==
  \A i \in 1..Len(hist) :
    /\ (DidToTag(i) /\ IsWrapper(hist[i].value[1]))
         => /\ hist[i].err = "none"
            /\ hist[i].tree[1].id = ArrayKindOf(hist[i].value[1].name)
    /\ (DidToTag(i) /\ IsPlainIntegerSequence(hist[i].value[1]))
         => /\ hist[i].err = "none"
            /\ hist[i].tree[1].id = TagIdList

StrictKinds == {"i8", "i16", "i32", "i64", "f32", "f64", "String"}

\* the one tag kind a declared scalar shape is accepted from
TagKindFor(kind) ==
  CASE kind = "i8" -> TagIdByte
    [] kind = "i16" -> TagIdShort
    [] kind = "i32" -> TagIdInt
    [] kind = "i64" -> TagIdLong
    [] kind = "f32" -> TagIdFloat
    [] kind = "f64" -> TagIdDouble
    [] kind = "String" -> TagIdString

\* the typed error of a declared scalar shape
ExpectedFor(kind) ==
  CASE kind = "i8" -> "ExpectedByte"
    [] kind = "i16" -> "ExpectedShort"
    [] kind = "i32" -> "ExpectedInt"
    [] kind = "i64" -> "ExpectedLong"
    [] kind = "f32" -> "ExpectedFloat"
    [] kind = "f64" -> "ExpectedDouble"
    [] kind = "String" -> "ExpectedString"

\* the scalar v holds the payload of t unchanged
SamePayload(v, t) ==
  /\ v.kind \in StrictKinds
  /\ t.id = TagKindFor(v.kind)
  /\ IF v.kind \in {"i8", "i16"} THEN v.n = t.i ELSE v.s = t.s

\* the entries of a Compound whose declared field is a strict scalar of another kind
Mismatched(T, t) ==
  {j \in 1..Len(t.entries) :
     /\ FieldIndex(T, t.entries[j].name) # 0
     /\ T.fields[FieldIndex(T, t.entries[j].name)].value.kind \in StrictKinds
     /\ t.entries[j].value.id #
          TagKindFor(T.fields[FieldIndex(T, t.entries[j].name)].value.kind)}

\* the i-th call, a from_tag, neither widened nor narrowed
StrictAt(c, T, t) ==
  /\ T.kind \in StrictKinds =>
       IF t.id = TagKindFor(T.kind)
       THEN c.err = "none" /\ SamePayload(c.value[1], t)
       ELSE c.err = ExpectedFor(T.kind) /\ c.value = <<>>
  /\ (T.kind = "struct" /\ t.id = TagIdCompound
      /\ (\A k \in 1..Len(T.fields) : T.fields[k].value.kind \in StrictKinds)
      /\ \A j \in 1..Len(t.entries) : FieldIndex(T, t.entries[j].name) # 0) =>
       IF Mismatched(T, t) = {}
       THEN c.err = "none" =>
              \A j \in 1..Len(t.entries) :
                T.fields[FieldIndex(T, t.entries[j].name)].value.kind \in StrictKinds =>
                  SamePayload(c.value[1].fields[FieldIndex(T, t.entries[j].name)].value,
                              t.entries[j].value)
       ELSE /\ c.value = <<>>
            /\ \E j \in Mismatched(T, t) :
                 c.err = ExpectedFor(T.fields[FieldIndex(T, t.entries[j].name)].value.kind)
  /\ (T.kind = "seq" /\ T.elem[1].kind \in StrictKinds /\ t.id = TagIdList) =>
       IF \A j \in 1..Len(t.items) : t.items[j].id = TagKindFor(T.elem[1].kind)
       THEN /\ c.err = "none"
            /\ Len(c.value[1].items) = Len(t.items)
            /\ \A j \in 1..Len(t.items) : SamePayload(c.value[1].items[j], t.items[j])
       ELSE c.err = ExpectedFor(T.elem[1].kind) /\ c.value = <<>>

\* C18: from_tag neither widens nor narrows: a declared i8, i16, i32, i64, f32, f64
\* or String (the type asked for, a field of a record, an element of a sequence
\* given a List) is accepted only from a Byte, Short, Int, Long, Float, Double or
\* String tag, whose payload it then holds; from a tag of any other kind from_tag
\* fails with ExpectedByte, ExpectedShort, ExpectedInt, ExpectedLong,
\* ExpectedFloat, ExpectedDouble or ExpectedString.
C18_NoWideningOrNarrowing ==
  \A i \in 1..Len(hist) :
    DidFromTag(i) => StrictAt(hist[i], user_type[1], hist[i].tree[1])

\* from_tag::<Person>(Compound{name = "Zesty", age = Short(42)}) has failed with
\* ExpectedInt
C18_Witness ==
  /\ DidFromTag(1)
  /\ user_type = <<Person(<<>>, I32(0))>>
  /\ hist[1].tree =
       <<MkTag(TagIdCompound, <<[name |-> KeyName, value |-> MkTag(TagIdString, TextZesty)],
                                [name |-> KeyAge, value |-> MkTag(TagIdShort, 42)]>>)>>
  /\ hist[1].err = "ExpectedInt"

\* the typed error of a wrapper of a reserved name
ExpectedArray(name) ==
  CASE name = NameByteArray -> "ExpectedByteArray"
    [] name = NameIntArray -> "ExpectedIntArray"
    [] name = NameLongArray -> "ExpectedLongArray"

\* C19: from_tag never conflates numeric arrays with lists: a declared plain
\* sequence is accepted only from a List, and from a ByteArray, IntArray or
\* LongArray tag from_tag fails with ExpectedList; a declared ByteArray, IntArray or
\* LongArray wrapper is accepted only from a tag of its own array kind, and from a
\* List or an array of another kind from_tag fails with ExpectedByteArray,
\* ExpectedIntArray or ExpectedLongArray.
C19_ArraysAreNotLists ==
  \A i \in 1..Len(hist) :
    DidFromTag(i) =>
      /\ user_type[1].kind = "seq" =>
           /\ hist[i].err = "none" => hist[i].tree[1].id = TagIdList
           /\ hist[i].tree[1].id \in {TagIdByteArray, TagIdIntArray, TagIdLongArray}
                => hist[i].err = "ExpectedList"
      /\ IsWrapper(user_type[1]) =>
           /\ hist[i].err = "none" => hist[i].tree[1].id = ArrayKindOf(user_type[1].name)
           /\ (hist[i].tree[1].id \in {TagIdList, TagIdByteArray, TagIdIntArray, TagIdLongArray}
               /\ hist[i].tree[1].id # ArrayKindOf(user_type[1].name))
                => hist[i].err = ExpectedArray(user_type[1].name)

\* the value is built from the shapes of the producer table only
RECURSIVE Admitted(_)
Admitted(v) ==
  /\ v.kind \notin {"option", "unit", "unit_struct", "tuple", "tuple_struct", "any"}
  /\ \A j \in 1..Len(v.items) : Admitted(v.items[j])
  /\ \A j \in 1..Len(v.fields) : Admitted(v.fields[j].value)

\* C20: for every value V built from the shapes of the producer table, to_tag(V)
\* succeeds, for a record with a Compound that lists the fields in declaration
\* order, and from_tag of that tree at V's type succeeds with a value equal to V.
C20_RoundTrip ==
  (src.kind = "value" /\ Admitted(user_type[1])) =>
    /\ DidToTag(1) =>
         /\ hist[1].err = "none"
         /\ user_type[1].kind = "struct" =>
              /\ hist[1].tree[1].id = TagIdCompound
              /\ [j \in 1..Len(hist[1].tree[1].entries) |-> hist[1].tree[1].entries[j].name]
                   = [j \in 1..Len(user_type[1].fields) |-> user_type[1].fields[j].name]
    /\ DidFromTag(2) =>
         /\ hist[2].err = "none"
         /\ hist[2].value = <<user_type[1]>>

(***************************************************************************)
(* A buffer is read, bound to a record type, turned back into a tree and   *)
(* written again (tests/integration_test.rs).                              *)
(***************************************************************************)
\* the tree the producer table of the format gives for a value built from signed
\* integers, floats, text, sequences, records and the three wrappers
RECURSIVE TableTree(_)
TableTree(v) ==
  CASE v.kind \in {"i8", "i16"} -> MkTag(TagKindFor(v.kind), v.n)
    [] v.kind \in {"i32", "i64", "f32", "f64", "String"} -> MkTag(TagKindFor(v.kind), v.s)
    [] v.kind = "newtype" /\ v.name = NameByteArray ->
         MkTag(TagIdByteArray, [j \in 1..Len(v.items[1].items) |-> v.items[1].items[j].n])
    [] v.kind = "newtype" /\ v.name \in {NameIntArray, NameLongArray} ->
         MkTag(ArrayKindOf(v.name), [j \in 1..Len(v.items[1].items) |-> v.items[1].items[j].s])
    [] v.kind = "seq" -> MkTag(TagIdList, [j \in 1..Len(v.items) |-> TableTree(v.items[j])])
    [] v.kind = "struct" ->
         MkTag(TagIdCompound,
               [j \in 1..Len(v.fields) |->
                  [name |-> v.fields[j].name, value |-> TableTree(v.fields[j].value)]])

Field(name, v) == [name |-> name, value |-> v]

\* records with scalar fields, a nested record, a list of longs, a list of
\* records, and fields of the three wrapper types
BoundRecords ==
  {Person(TextZesty, I32(42)),
   VStruct(<<Field(StorageVersionKey, VBits("i32", I32(8))), Field(KeyA, VNum("i8", -1)),
             Field(KeyB, VNum("i16", 258))>>),
   VStruct(<<Field(KeyA, VStruct(<<Field(KeyName, VBits("String", <<195, 169>>)),
                                   Field(KeyB, VBits("f32", FromBytesBE(<<63, 128, 0, 0>>)))>>)),
             Field(StorageVersionKey, VBits("i32", I32(10)))>>),
   VStruct(<<Field(StorageVersionKey, VBits("i32", I32(8))),
             Field(KeyB, VSeq(VBits("i64", I64(0)), <<VBits("i64", LongMin), VBits("i64", I64(1))>>))>>),
   VStruct(<<Field(KeyA, VSeq(VStruct(<<Field(KeyName, VBits("String", <<>>))>>),
                              <<VStruct(<<Field(KeyName, VBits("String", <<97>>))>>)>>)),
             Field(KeyB, VBits("f64", FromBytesBE(<<63, 240, 0, 0, 0, 0, 0, 0>>)))>>)}
  \cup {VStruct(<<Field(StorageVersionKey, VBits("i32", I32(8))), Field(KeyA, w)>>) :
          w \in {x \in Wrappers : Len(x.items[1].items) = 1}}

BoundInit ==
  /\ endian \in Endians
  /\ header \in BedrockHeaders
  /\ hist = <<>>
  /\ \E v \in BoundRecords :
       /\ header = "With" => HasStorageVersion(TableTree(v))
       /\ root_name \in {<<>>, <<76, 101>>}
       /\ data = WireRoot(TableTree(v), root_name, endian, header)
       /\ user_type = <<v>>
  /\ user_value = <<>>
  /\ tag = <<>>
  /\ pc = "bytes"
  /\ src = Source("canonical", <<>>, 0)

BoundNext == ReadRoot \/ FromTag \/ ToTag \/ WriteRoot

BoundSpec == BoundInit /\ [][BoundNext]_vars

\* the run began with a read_root that returned a tree and a from_tag of it
Bound ==
  /\ Len(hist) >= 2
  /\ hist[1].op = "read" /\ hist[1].err = "none"
  /\ hist[2].op = "from_tag"

\* C21: for a tree T read_root returned whose shape is that of the declared record
\* type, from_tag(T) succeeds and to_tag of its value is a tree equal to T (kinds,
\* values, key order), and write_root of that tree under the same root name,
\* dialect and header succeeds with the bytes that were read.
C21_StructRoundTripReproducesBytes ==
  Bound =>
    /\ hist[2].err = "none"
    /\ (Len(hist) >= 3 /\ hist[3].op = "to_tag") =>
         hist[3].err = "none" /\ hist[3].tree = hist[1].tree
    /\ (Len(hist) >= 4 /\ hist[3].op = "to_tag" /\ hist[4].op = "write") =>
         hist[4].err = "none" /\ hist[4].bytes = hist[1].bytes

\* C22: from_tag of a declared bool returns false for Byte(0) and true for Byte(1),
\* and fails with ExpectedBoolean for every other Byte and for every tag that is
\* not a Byte.
C22_BooleanDecoding ==
  \A i \in 1..Len(hist) :
    (DidFromTag(i) /\ user_type[1].kind = "bool") =>
      IF hist[i].tree[1].id = TagIdByte /\ hist[i].tree[1].i = 0
      THEN hist[i].err = "none" /\ hist[i].value = <<VBool(FALSE)>>
      ELSE IF hist[i].tree[1].id = TagIdByte /\ hist[i].tree[1].i = 1
      THEN hist[i].err = "none" /\ hist[i].value = <<VBool(TRUE)>>
      ELSE hist[i].err = "ExpectedBoolean" /\ hist[i].value = <<>>

\* from_tag::<bool>(Byte(2)) has failed with ExpectedBoolean
C22_Witness ==
  /\ DidFromTag(1)
  /\ user_type = <<VBool(FALSE)>>
  /\ hist[1].tree = <<MkTag(TagIdByte, 2)>>
  /\ hist[1].err = "ExpectedBoolean"

\* C23: to_tag of a mapping with text keys succeeds with a Compound that holds one
\* entry per entry of the mapping, under the mapping's key, with the value the
\* producer rules give; an empty mapping gives an empty Compound.
C23_MappingBecomesCompound ==
  \A i \in 1..Len(hist) :
    (DidToTag(i) /\ hist[i].value[1].kind = "map") =>
      /\ hist[i].err = "none"
      /\ hist[i].tree[1].id = TagIdCompound
      /\ Len(hist[i].tree[1].entries) = Len(hist[i].value[1].fields)
      /\ \A j \in 1..Len(hist[i].value[1].fields) :
           \E k \in 1..Len(hist[i].tree[1].entries) :
             /\ hist[i].tree[1].entries[k].name = hist[i].value[1].fields[j].name
             /\ hist[i].tree[1].entries[k].value = TableTree(hist[i].value[1].fields[j].value)

PayloadVariants == {"newtype_variant", "tuple_variant", "struct_variant"}

\* the keys of a Compound, in order
KeysOf(t) == [j \in 1..Len(t.entries) |-> t.entries[j].name]

\* C24: to_tag of a unit variant gives String(variant name); to_tag of a payload
\* variant (newtype, tuple or struct) gives a Compound with exactly one key, the
\* variant name, that holds the converted payload: the payload of a newtype
\* variant, a List of the fields of a tuple variant, a Compound of the fields of a
\* struct variant.  The fields never stand beside the variant key and the variant
\* name is never dropped.
C24_EnumVariants ==
  \A i \in 1..Len(hist) :
    DidToTag(i) =>
      /\ hist[i].value[1].kind = "unit_variant" =>
            /\ hist[i].err = "none"
            /\ hist[i].tree = <<MkTag(TagIdString, hist[i].value[1].name)>>
      /\ hist[i].value[1].kind \in PayloadVariants =>
            /\ hist[i].err = "none"
            /\ hist[i].tree[1].id = TagIdCompound
            /\ KeysOf(hist[i].tree[1]) = <<hist[i].value[1].name>>
            /\ LET payload == hist[i].tree[1].entries[1].value
                   v == hist[i].value[1]
               IN CASE v.kind = "newtype_variant" -> payload = to_tag(v.items[1]).val
                    [] v.kind = "tuple_variant" ->
                         payload.id = TagIdList /\ Len(payload.items) = Len(v.items)
                    [] v.kind = "struct_variant" ->
                         /\ payload.id = TagIdCompound
                         /\ KeysOf(payload) = [j \in 1..Len(v.fields) |-> v.fields[j].name]

\* the part of C24 that the producer keeps: unit and newtype variants
C24_UnitAndNewtypeVariants ==
  \A i \in 1..Len(hist) :
    DidToTag(i) =>
      /\ hist[i].value[1].kind = "unit_variant" =>
            /\ hist[i].err = "none"
            /\ hist[i].tree = <<MkTag(TagIdString, hist[i].value[1].name)>>
      /\ hist[i].value[1].kind = "newtype_variant" =>
            /\ hist[i].err = "none"
            /\ hist[i].tree[1].id = TagIdCompound
            /\ KeysOf(hist[i].tree[1]) = <<hist[i].value[1].name>>
            /\ hist[i].tree[1].entries[1].value = to_tag(hist[i].value[1].items[1]).val

\* the shapes the consumer leaves unimplemented
UnimplementedConsumerKinds ==
  {"u8", "u16", "u32", "u64", "char", "bytes", "option", "unit", "unit_struct", "tuple",
   "tuple_struct", "unit_variant", "newtype_variant", "tuple_variant", "struct_variant",
   "any"}

\* the shapes the producer leaves unimplemented: none, unit, unit struct
UnimplementedProducer(v) ==
  \/ v.kind \in {"unit", "unit_struct"}
  \/ v.kind = "option" /\ Len(v.items) = 0

\* the producer returns its typed error and no tree
C25_ProducerRefuses ==
  \A i \in 1..Len(hist) :
    (DidToTag(i) /\ UnimplementedProducer(hist[i].value[1])) =>
      hist[i].err = "SerializeError" /\ hist[i].tree = <<>>

\* C25: every unimplemented shape returns a typed error: from_tag at an unsigned
\* integer, a character, a byte blob, an option, a unit, a unit struct, a tuple, a
\* tuple struct, an enumeration or an untyped value, and to_tag of none, unit or a
\* unit struct, never abort the program and never give a value or a tree.
C25_UnimplementedShapesReturnErrors ==
  /\ pc # "aborted"
  /\ C25_ProducerRefuses
  /\ \A i \in 1..Len(hist) :
       (DidFromTag(i) /\ user_type[1].kind \in UnimplementedConsumerKinds) =>
         hist[i].err \notin {"none", "panic"} /\ hist[i].value = <<>>

\* to_tag has refused an unimplemented shape
C25_ProducerWitness ==
  \E i \in 1..Len(hist) : DidToTag(i) /\ UnimplementedProducer(hist[i].value[1])

\* the entries a Compound keeps of the wire entries es: every key once, at the
\* place it first stood, with the value that came last
LastWins(es) ==
  LET firsts == SelectSeq([j \in 1..Len(es) |-> j],
                          LAMBDA j : \A k \in 1..(j - 1) : es[k].name # es[j].name)
      last(key) == CHOOSE j \in 1..Len(es) :
                     es[j].name = key /\ \A k \in (j + 1)..Len(es) : es[k].name # key
  IN [n \in 1..Len(firsts) |->
        [name |-> es[firsts[n]].name, value |-> es[last(es[firsts[n]].name)].value]]

\* C26: when a Compound on the wire holds a key more than once, read_root
\* succeeds and the parsed Compound holds every key once, at the place the key
\* first stood, with the value that came last: the keys are unique and the size is
\* the number of distinct keys on the wire.
C26_DuplicateKeysLastWins ==
  \A es \in DuplicateKeyed :
    (src.kind = "duplicated" /\ DidRead(1) /\ hist[1].bytes = DuplicateWire(es, endian)) =>
      /\ hist[1].err = "none"
      /\ hist[1].tree = <<MkTag(TagIdCompound, LastWins(es))>>
      /\ \A j, k \in 1..Len(hist[1].tree[1].entries) :
           hist[1].tree[1].entries[j].name = hist[1].tree[1].entries[k].name => j = k
      /\ Len(hist[1].tree[1].entries) = Cardinality({es[j].name : j \in 1..Len(es)})

\* read_root has parsed a Compound whose first key came three times on the wire
C26_Witness ==
  /\ src.kind = "duplicated"
  /\ DidRead(1)
  /\ hist[1].err = "none"
  /\ \E es \in DuplicateKeyed :
       /\ hist[1].bytes = DuplicateWire(es, endian)
       /\ Len(es) = 3
       /\ Len(hist[1].tree[1].entries) < Len(es)
       /\ hist[1].tree[1].entries[1].value = es[3].value

\* C27: when the first length field of a ByteArray, an IntArray, a LongArray or a
\* List, or under LittleVarInt of a String, decodes to a negative number,
\* read_root returns an error value: it builds no tree and it does not abort.
C27_NegativeLengthIsAnError ==
  (src.kind = "negative" /\ DidRead(1)) =>
    /\ hist[1].err \notin {"none", "panic"}
    /\ hist[1].tree = <<>>
    /\ pc # "aborted"

\* the u16 that stands at offset at (counted from 0) of the output
U16At(out, at, e) ==
  IF e = "Big" THEN out[at + 1] * 256 + out[at + 2] ELSE out[at + 2] * 256 + out[at + 1]

\* where the length prefix of a root String stands: after the TagId and the name
RootStringAt == 3 + Len(root_name)

\* write_root has written a root Byte or a root String under a fixed-width encoding
WroteRootText ==
  /\ src.kind = "tree"
  /\ DidWrite(1)
  /\ hist[1].err = "none"
  /\ hist[1].tree[1].id \in {TagIdByte, TagIdString}
  /\ header = "Without"
  /\ endian # "LittleVarInt"

\* the u16 prefixes of the output count the bytes written after them: the bytes
\* of the name of a root Byte are all but the TagId, the prefix and the payload;
\* the bytes of a root String run to the end of the output
PrefixesCountBytes ==
  IF hist[1].tree[1].id = TagIdByte
  THEN U16At(hist[1].bytes, 1, endian) = Len(hist[1].bytes) - 4
  ELSE /\ U16At(hist[1].bytes, 1, endian) = Len(root_name)
       /\ U16At(hist[1].bytes, RootStringAt, endian) = Len(hist[1].bytes) - (RootStringAt + 2)

\* C28: every string write_root emits under a fixed-width encoding carries in
\* its u16 length prefix the number of bytes written after it, for the root name
\* and for a root String.  A string longer than 65535 bytes is never emitted with
\* its length taken modulo 65536.
C28_StringPrefixCountsBytes == WroteRootText => PrefixesCountBytes

\* the same for the strings a u16 can count
C28_ShortStrings == (WroteRootText /\ Len(root_name) < U16Range) => PrefixesCountBytes

\* the i-th call was a write_root with a header that succeeded
WroteWithHeader(i) == DidWrite(i) /\ header = "With" /\ hist[i].err = "none"

\* C29: when write_root with a header succeeds, its output from offset 8 on is
\* the output of write_root without a header for the same tree, root name and
\* encoding: writing the header back changes only the bytes 0..7.
C29_HeaderChangesOnlyFirstEight ==
  \A i \in 1..Len(hist) :
    WroteWithHeader(i) =>
      /\ Len(hist[i].bytes) >= HeaderBytes
      /\ SubSeq(hist[i].bytes, HeaderBytes + 1, Len(hist[i].bytes))
           = write_root(hist[i].tree[1], root_name, endian, "Without").val

\* write_root has written a header before a payload
C29_Witness ==
  \E i \in 1..Len(hist) :
    /\ WroteWithHeader(i)
    /\ Len(hist[i].bytes) > HeaderBytes + 4
    /\ SubSeq(hist[i].bytes, 1, HeaderBytes) # [j \in 1..HeaderBytes |-> 0]

\* a List whose elements differ in kind
IsMixedList(t) ==
  t.id = TagIdList /\ \E j \in 1..Len(t.items) : t.items[j].id # t.items[1].id

\* C30: write_root never emits a List whose element payloads disagree with the
\* element TagId it wrote: for a List whose elements differ in kind write_root
\* returns an error and no bytes, rather than writing every payload under the
\* TagId of the first element.
C30_MixedListIsRefused ==
  \A i \in 1..Len(hist) :
    (DidWrite(i) /\ IsMixedList(hist[i].tree[1])) =>
      hist[i].err # "none" /\ hist[i].bytes = <<>>
====
